---------------------------- MODULE Spec2Model ----------------------------
(***************************************************************************)
(* Model of the permission-statement compiler front end of authed:        *)
(*   - the finite-state interpreter Interpreter.interpret, in its two      *)
(*     implementations (core/parser/interpreter.py and                     *)
(*     permissions/parser/interpreter.py),                                 *)
(*   - the SchemaProvider it consults,                                     *)
(*   - SimpleStatementBuilder.build (permissions/parser/builder.py),       *)
(*   - PermissionParser.parse_statement (permissions/parser/parser.py),    *)
(*     which runs tokenizer, interpreter and builder one after the other.  *)
(* One parse_statement call is one behaviour: every iteration of the       *)
(* interpreter's while loop is one action, selected by the interpreter's   *)
(* `state`.  Token indices are 0-based as in the code; Tok(toks, j) reads  *)
(* tokens[j].                                                              *)
(***************************************************************************)
EXTENDS Integers, Sequences, FiniteSets, TLC

VARIABLES
    impl,                 \* which Interpreter implementation runs: "core" | "permissions"
    integration_mappings, \* SchemaProvider.integration_mappings (registration order)
    text,                 \* the statement text handed to parse_statement, as its words
    tokens,               \* the token list handed to interpret
    pc,                   \* "text" | "start" | "loop" | "returned" | "raised" | "built" | "invalid"
    state,                \* the interpreter's state string
    i,                    \* the loop index
    command,              \* result["command"]
    access_types,         \* result["access_types"]
    resource_type,        \* result["resource_type"]
    conditions,           \* result["conditions"]
    integration_data,     \* result["integration_data"]
    current_condition,    \* the condition being read
    current_logical_op,   \* the pending logical operator
    error,                \* the exception raised, if any
    statement,            \* the PermissionStatement built, if any
    examined,             \* history: the token indices read so far
    helper_at,            \* history: index of the helper token of the condition being read
    cond_at               \* history: for each appended condition, its helper and value index

\* a second interpret call on the same Interpreter, and the call run alone
VARIABLES
    thread,               \* the interpret call that is running: 0 (alone), 1 or 2
    other,                \* the call that is not running: its number and its local variables
    reference             \* the local variables the call that ran alone ended with

\* AuthedManager (core/manager.py)
VARIABLES
    config,               \* self.config: for each standard module, whether it is enabled
    modules,              \* self.modules: the names of the registered modules
    execution_order,      \* self._execution_order: the cached execution order
    module_state,         \* lifecycle_manager: the lifecycle state of each module
    handler,              \* the manager method that is running, "idle" when none is
    order,                \* the running method's local execution_order
    next_module,          \* the running method's position in its loop over the order
    context,              \* process_request: context.data
    result,               \* process_request: the ModuleResult of the last module processed
    errors,               \* stop: the local errors list
    outcome,              \* how the last method call ended: the method and the exception raised
    calls,                \* history: the lifecycle and module calls the running method made
    audit                 \* history: the audit-logger calls the running method made

parserVars ==
    <<impl, integration_mappings, text, tokens, pc, state, i, command, access_types,
      resource_type, conditions, integration_data, current_condition,
      current_logical_op, error, statement, examined, helper_at, cond_at>>

callVars == <<thread, other, reference>>

managerVars ==
    <<config, modules, execution_order, module_state, handler, order, next_module,
      context, result, errors, outcome, calls, audit>>

vars == <<parserVars, callVars, managerVars>>

-----------------------------------------------------------------------------
(* Bounds of the model. *)

\* longest run of access-type / "&" tokens between the command and ACCESS_TO
MaxAccess == 4
\* largest number of condition clauses in a generated statement tail
MaxClauses == 2

-----------------------------------------------------------------------------
(* The enumerated vocabularies (models.py is not part of the sources; the   *)
(* members are the ones the interpreter's messages, comments and the demo   *)
(* application name).                                                       *)

None == "None"

Commands == {"GIVE", "DENY"}

AccessTypes == {"READ", "WRITE", "DELETE"}

ResourceTypes == {"ISSUES", "TEAMS", "PROJECTS"}

StructuralHelpers == {"WITH", "NAMED"}

ConditionOperators ==
    {"IS", "IS_NOT", "CONTAINS", "GREATER_THAN", "LESS_THAN",
     "GREATER_OR_EQUAL", "LESS_OR_EQUAL"}

LogicalOperators == {"AND", "OR"}

DataTypes == {"STRING", "NUMBER", "BOOLEAN", "TAGS", "EMAIL_ADDRESS"}

\* BaseCommand(token) succeeds
IsCommandAccepting(t) == TRUE
IsCommand(t) == t \in Commands

\* AccessType(token) succeeds
IsAccessType(t) == t \in AccessTypes

\* ResourceType(token) succeeds
IsResourceType(t) == t \in ResourceTypes

\* StructuralHelper(token) succeeds
IsStructuralHelper(t) == t \in StructuralHelpers

\* ConditionOperator(token) succeeds
IsConditionOperator(t) == t \in ConditionOperators

-----------------------------------------------------------------------------
(* Strings.  TLC cannot take a string apart, so the string functions the    *)
(* code uses are tabulated over the tokens of the model.                    *)

\* str.lower() on the upper-case tokens of the model; other tokens are
\* already lower-case and map to themselves
LowerTable ==
    ("PRIORITY" :> "priority") @@ ("LABELS" :> "labels") @@ ("DONE" :> "done")
    @@ ("OWNER" :> "owner") @@ ("TITLE" :> "title") @@ ("COLOR" :> "color")
    @@ ("A" :> "a") @@ ("B" :> "b") @@ ("STATUS" :> "status")
    @@ ("WITH" :> "with") @@ ("NAMED" :> "named")
    @@ ("AND" :> "and") @@ ("OR" :> "or") @@ ("NOT" :> "not")
    @@ ("IS" :> "is") @@ ("CONTAINS" :> "contains") @@ ("GREATER" :> "greater")
    @@ ("LESS" :> "less") @@ ("THAN" :> "than") @@ ("EQUAL" :> "equal")
    @@ ("FOO" :> "foo") @@ ("TRUE" :> "true") @@ ("ACCESS_TO" :> "access_to")
    @@ ("ISSUES" :> "issues") @@ ("READ" :> "read") @@ ("GIVE" :> "give")

Lower(t) == IF t \in DOMAIN LowerTable THEN LowerTable[t] ELSE t

\* int(value): the tokens int() parses, with the integer it returns
IntLiteral == ("0" :> 0) @@ ("1" :> 1) @@ ("2" :> 2) @@ ("3" :> 3) @@ ("+2" :> 2)

\* float(value): the further tokens float() parses, in tenths
FloatLiteral == ("2.5" :> 25) @@ ("1e1" :> 100)

\* "@" in value
ContainsAt(t) == t \in {"a@b.c"}

\* value.split(",") followed by strip() of every part, for the tokens with a comma
SplitTable == ("x,y" :> <<"x", "y">>) @@ ("x," :> <<"x", "">>)

ContainsComma(t) == t \in DOMAIN SplitTable

-----------------------------------------------------------------------------
(* Values a condition can carry after coercion: a Python int, float, bool,  *)
(* str or list of str, in one record shape.                                 *)

IntVal(n) == [kind |-> "int", num |-> n, str |-> "", items |-> <<>>]
FloatVal(n) == [kind |-> "float", num |-> n, str |-> "", items |-> <<>>]
BoolVal(b) == [kind |-> "bool", num |-> IF b THEN 1 ELSE 0, str |-> "", items |-> <<>>]
StrVal(s) == [kind |-> "str", num |-> 0, str |-> s, items |-> <<>>]
ListVal(l) == [kind |-> "list", num |-> 0, str |-> "", items |-> l]


-----------------------------------------------------------------------------
(* Integration definitions: the construction-time input of SchemaProvider.  *)
(* An integration is a name, its "_helper_mappings" table and, per resource *)
(* type, the declared fields (each with its "data_type" string, NoDataType  *)
(* when the key is missing) and the resource "metadata".                    *)

NoDataType == "<no data_type>"

EmptyMap == [k \in {} |-> ""]

LinearIntegration ==
    [name |-> "linear",
     helper_mappings |-> ("NAMED" :> "title") @@ ("TAGGED" :> "labels"),
     resources |->
        ("ISSUES" :>
            [fields |-> ("priority" :> "NUMBER") @@ ("done" :> "BOOLEAN")
                        @@ ("labels" :> "TAGS") @@ ("owner" :> "EMAIL_ADDRESS")
                        @@ ("title" :> "STRING") @@ ("a" :> "NUMBER")
                        @@ ("b" :> "NUMBER"),
             metadata |-> ("api" :> "linear") @@ ("collection" :> "issues")])
        @@ ("TEAMS" :>
            [fields |-> ("title" :> "STRING"),
             metadata |-> EmptyMap])]

TrackerIntegration ==
    [name |-> "tracker",
     helper_mappings |-> ("NAMED" :> "summary") @@ ("WITH" :> "label"),
     resources |->
        ("ISSUES" :>
            [fields |-> ("priority" :> "INTEGER") @@ ("color" :> NoDataType)
                        @@ ("done" :> "STRING"),
             metadata |-> ("api" :> "tracker") @@ ("page_size" :> "50")])]

\* the integration mappings a SchemaProvider is constructed from
Schemas == {<<>>, <<LinearIntegration>>, <<TrackerIntegration, LinearIntegration>>}

-----------------------------------------------------------------------------
(* SchemaProvider *)

RECURSIVE FirstMapping(_, _, _)
\* the first integration, in registration order from index k, that maps helper h
FirstMapping(im, h, k) ==
    IF k > Len(im) THEN None
    ELSE IF h \in DOMAIN im[k].helper_mappings THEN im[k].helper_mappings[h]
    ELSE FirstMapping(im, h, k + 1)

RECURSIVE HelperEntries(_, _, _)
\* SchemaProvider._load_helper_mappings, the entries of helper h collected from
\* the first k integrations: one (integration, field name) pair for every
\* integration that maps h, in registration order
HelperEntries(im, h, k) ==
    IF k = 0 THEN <<>>
    ELSE IF h \in DOMAIN im[k].helper_mappings
         THEN Append(HelperEntries(im, h, k - 1),
                     [integration |-> im[k].name, field |-> im[k].helper_mappings[h]])
    ELSE HelperEntries(im, h, k - 1)

\* SchemaProvider._load_helper_mappings: the table self.helper_mappings; a key
\* that is no StructuralHelper makes StructuralHelper(helper_str) raise
\* ValueError, which is caught, and gets no entry
LoadHelperMappingsKeepingAll(im) ==
    [h \in UNION {DOMAIN im[k].helper_mappings : k \in 1..Len(im)} |->
        HelperEntries(im, h, Len(im))]
LoadHelperMappings(im) ==
    [h \in {s \in UNION {DOMAIN im[k].helper_mappings : k \in 1..Len(im)} :
                IsStructuralHelper(s)} |->
        HelperEntries(im, h, Len(im))]

\* SchemaProvider.map_field: helper in self.helper_mappings
LoadedHelpers(im) == DOMAIN LoadHelperMappings(im)

\* SchemaProvider.map_field
MapField(im, helper, field_token) ==
    IF helper = "WITH" THEN Lower(field_token)
    ELSE IF helper \in LoadedHelpers(im) THEN FirstMapping(im, helper, 1)
    ELSE Lower(field_token)

RECURSIVE FieldTypeFrom(_, _, _, _)
\* SchemaProvider.get_field_type, scanning the integrations from index k
FieldTypeFrom(im, field, rt, k) ==
    IF k > Len(im) THEN None
    ELSE IF /\ rt \in DOMAIN im[k].resources
            /\ field \in DOMAIN im[k].resources[rt].fields
            /\ im[k].resources[rt].fields[field] # NoDataType
            /\ im[k].resources[rt].fields[field] \in DataTypes
         THEN im[k].resources[rt].fields[field]
    ELSE FieldTypeFrom(im, field, rt, k + 1)

GetFieldTypeSkippingFirst(im, field, rt) == FieldTypeFrom(im, field, rt, 2)
GetFieldType(im, field, rt) == FieldTypeFrom(im, field, rt, 1)

RECURSIVE MetadataFrom(_, _, _)
\* SchemaProvider.get_resource_metadata: dict.update in registration order,
\* so a later integration overwrites the keys of an earlier one
MetadataFrom(im, rt, k) ==
    IF k = 0 THEN EmptyMap
    ELSE IF rt \in DOMAIN im[k].resources
         THEN im[k].resources[rt].metadata @@ MetadataFrom(im, rt, k - 1)
    ELSE MetadataFrom(im, rt, k - 1)

GetResourceMetadataOfLast(im, rt) ==
    IF Len(im) > 0 /\ rt \in DOMAIN im[Len(im)].resources
    THEN im[Len(im)].resources[rt].metadata
    ELSE EmptyMap
GetResourceMetadata(im, rt) == MetadataFrom(im, rt, Len(im))

-----------------------------------------------------------------------------
(* Type inference and value conversion *)

\* Interpreter._infer_data_type (permissions implementation)
InferDataType(value) ==
    IF Lower(value) \in {"true", "false", "yes", "no", "on", "off"} THEN "BOOLEAN"
    ELSE IF value \in DOMAIN IntLiteral THEN "NUMBER"
    ELSE IF value \in DOMAIN FloatLiteral THEN "NUMBER"
    ELSE IF ContainsAt(value) THEN "EMAIL_ADDRESS"
    ELSE "STRING"

\* the NUMBER conversion: int, then float, then the string unchanged
ConvertNumberDefaulting(value) ==
    IF value \in DOMAIN IntLiteral THEN IntVal(IntLiteral[value])
    ELSE IF value \in DOMAIN FloatLiteral THEN FloatVal(FloatLiteral[value])
    ELSE IntVal(0)
ConvertNumber(value) ==
    IF value \in DOMAIN IntLiteral THEN IntVal(IntLiteral[value])
    ELSE IF value \in DOMAIN FloatLiteral THEN FloatVal(FloatLiteral[value])
    ELSE StrVal(value)

\* Interpreter._convert_value (permissions implementation)
ConvertValue(value, data_type) ==
    IF data_type = "BOOLEAN" THEN BoolVal(Lower(value) \in {"true", "yes", "on", "1"})
    ELSE IF data_type = "NUMBER" THEN ConvertNumber(value)
    ELSE IF data_type = "TAGS"
         THEN IF ContainsComma(value) THEN ListVal(SplitTable[value])
              ELSE ListVal(<<value>>)
    ELSE StrVal(value)

\* CoercionEngine.coerce with the built-in conversions (core implementation;
\* coercion_engine.py is not part of the sources)
Coerce(value, data_type) ==
    IF data_type = "BOOLEAN" THEN BoolVal(Lower(value) \in {"true", "yes", "on", "1"})
    ELSE IF data_type = "NUMBER"
         THEN IF value \in DOMAIN IntLiteral THEN IntVal(IntLiteral[value])
              ELSE IF value \in DOMAIN FloatLiteral THEN FloatVal(FloatLiteral[value])
              ELSE StrVal(value)
    ELSE IF data_type = "TAGS"
         THEN IF ContainsComma(value) THEN ListVal(SplitTable[value])
              ELSE ListVal(<<value>>)
    ELSE StrVal(value)

-----------------------------------------------------------------------------
(* Interpreter.interpret *)

\* tokens[j], 0-based as in the code
Tok(toks, j) == toks[j + 1]

NoError == [kind |-> None, state |-> None, token |-> None]

NoCondition == [helper |-> None, field |-> None, operator |-> None]

NoStatement ==
    [command |-> None, access_type |-> <<>>, resource_type |-> None,
     conditions |-> <<>>, logical_operator |-> None]

\* LogicalOperator.AND, the pending logical operator interpret starts with
DefaultLogicalOperator == "AND"

\* raise: the call ends with an exception that names the offending token
Raise(kind, tok) ==
    /\ pc' = "raised"
    /\ error' = [kind |-> kind, state |-> state, token |-> tok]
    /\ UNCHANGED <<managerVars, callVars,
                   impl, integration_mappings, text, tokens, state, i, command, access_types,
                   resource_type, conditions, integration_data, current_condition,
                   current_logical_op, statement, helper_at, cond_at>>

RECURSIVE MergeAccessTo(_)
\* Tokenizer.tokenize on the words of a text (tokenizer.py is not part of the
\* sources): the adjacent pair ACCESS TO becomes the one token ACCESS_TO, every
\* other word is passed through unchanged
MergeAccessTo(words) ==
    IF words = <<>> THEN <<>>
    ELSE IF Len(words) >= 2 /\ words[1] = "ACCESS" /\ words[2] = "TO"
    THEN <<"ACCESS_TO">> \o MergeAccessTo(SubSeq(words, 3, Len(words)))
    ELSE <<words[1]>> \o MergeAccessTo(Tail(words))

\* Tokenizer.tokenize fails on a text that is empty or only whitespace
TokenizeFails(words) == words = <<>>

\* PermissionParser.parse_statement, its first stage: the tokenizer runs on the
\* text; its failure ends the call, its tokens go to interpret
TokenizeLenient ==
    /\ pc = "text"
    /\ pc' = "start"
    /\ tokens' = MergeAccessTo(text)
    /\ UNCHANGED <<managerVars, callVars,
                   impl, integration_mappings, text, state, i, command, access_types,
                   resource_type, conditions, integration_data, current_condition,
                   current_logical_op, error, statement, examined, helper_at, cond_at>>
Tokenize ==
    /\ pc = "text"
    /\ IF TokenizeFails(text)
       THEN /\ pc' = "raised"
            /\ error' = [kind |-> "TokenizeError", state |-> "TOKENIZE", token |-> None]
            /\ tokens' = tokens
       ELSE /\ pc' = "start"
            /\ tokens' = MergeAccessTo(text)
            /\ error' = error
    /\ UNCHANGED <<managerVars, callVars,
                   impl, integration_mappings, text, state, i, command, access_types,
                   resource_type, conditions, integration_data, current_condition,
                   current_logical_op, statement, examined, helper_at, cond_at>>

\* entry of interpret: the empty token list is refused, the result structure
\* and the local variables are initialised
Interpret ==
    /\ pc = "start"
    /\ IF tokens = <<>>
       THEN /\ pc' = "raised"
            /\ error' = [kind |-> "ValueError", state |-> None, token |-> None]
            /\ UNCHANGED <<state, i, command, access_types, resource_type, conditions,
                           integration_data, current_condition, current_logical_op>>
       ELSE /\ pc' = "loop"
            /\ state' = "COMMAND"
            /\ i' = 0
            /\ command' = None
            /\ access_types' = <<>>
            /\ resource_type' = None
            /\ conditions' = <<>>
            /\ integration_data' = EmptyMap
            /\ current_condition' = NoCondition
            /\ current_logical_op' = DefaultLogicalOperator
            /\ error' = error
    /\ UNCHANGED <<managerVars, callVars,
                   impl, integration_mappings, text, tokens, statement, examined,
                   helper_at, cond_at>>

\* state COMMAND
StepCommand ==
    /\ pc = "loop" /\ i < Len(tokens) /\ state = "COMMAND"
    /\ examined' = examined \cup {i}
    /\ IF IsCommand(Tok(tokens, i))
       THEN /\ command' = Tok(tokens, i)
            /\ state' = "ACCESS_TYPE"
            /\ i' = i + 1
            /\ UNCHANGED <<managerVars, callVars,
                           impl, integration_mappings, text, tokens, pc, access_types,
                           resource_type, conditions, integration_data,
                           current_condition, current_logical_op, error, statement,
                           helper_at, cond_at>>
       ELSE Raise("ValueError", Tok(tokens, i))

\* state ACCESS_TYPE, after an access type was appended: the lookahead at the
\* next token decides the state ("&" and anything else stay in ACCESS_TYPE)
AccessTypeLookaheadSkipping(toks, j) ==
    IF j + 1 < Len(toks) /\ Tok(toks, j + 1) = "ACCESS_TO" THEN "RESOURCE_TYPE"
    ELSE "ACCESS_TYPE"
AccessTypeLookaheadEager(toks, j) ==
    IF j + 1 < Len(toks) /\ Tok(toks, j + 1) # "&" THEN "ACCESS_TO" ELSE "ACCESS_TYPE"
AccessTypeLookahead(toks, j) ==
    IF j + 1 < Len(toks) /\ Tok(toks, j + 1) # "&" /\ Tok(toks, j + 1) = "ACCESS_TO"
    THEN "ACCESS_TO"
    ELSE "ACCESS_TYPE"

\* state ACCESS_TYPE
StepAccessType ==
    /\ pc = "loop" /\ i < Len(tokens) /\ state = "ACCESS_TYPE"
    /\ LET token == Tok(tokens, i) IN
       IF token = "&"
       THEN /\ i' = i + 1
            /\ examined' = examined \cup {i}
            /\ UNCHANGED <<managerVars, callVars,
                           impl, integration_mappings, text, tokens, pc, state, command,
                           access_types, resource_type, conditions, integration_data,
                           current_condition, current_logical_op, error, statement,
                           helper_at, cond_at>>
       ELSE IF IsAccessType(token)
       THEN /\ access_types' = Append(access_types, token)
            /\ state' = AccessTypeLookahead(tokens, i)
            /\ i' = i + 1
            /\ examined' = examined \cup {i} \cup {j \in {i + 1} : j < Len(tokens)}
            /\ UNCHANGED <<managerVars, callVars,
                           impl, integration_mappings, text, tokens, pc, command,
                           resource_type, conditions, integration_data,
                           current_condition, current_logical_op, error, statement,
                           helper_at, cond_at>>
       ELSE IF token = "ACCESS_TO"
       THEN /\ state' = "RESOURCE_TYPE"
            /\ i' = i + 1
            /\ examined' = examined \cup {i}
            /\ UNCHANGED <<managerVars, callVars,
                           impl, integration_mappings, text, tokens, pc, command,
                           access_types, resource_type, conditions, integration_data,
                           current_condition, current_logical_op, error, statement,
                           helper_at, cond_at>>
       ELSE /\ examined' = examined \cup {i}
            /\ Raise("ValueError", token)

\* state ACCESS_TO
StepAccessTo ==
    /\ pc = "loop" /\ i < Len(tokens) /\ state = "ACCESS_TO"
    /\ examined' = examined \cup {i}
    /\ IF Tok(tokens, i) # "ACCESS_TO"
       THEN Raise("ValueError", Tok(tokens, i))
       ELSE /\ state' = "RESOURCE_TYPE"
            /\ i' = i + 1
            /\ UNCHANGED <<managerVars, callVars,
                           impl, integration_mappings, text, tokens, pc, command,
                           access_types, resource_type, conditions, integration_data,
                           current_condition, current_logical_op, error, statement,
                           helper_at, cond_at>>

\* state RESOURCE_TYPE
StepResourceType ==
    /\ pc = "loop" /\ i < Len(tokens) /\ state = "RESOURCE_TYPE"
    /\ examined' = examined \cup {i}
    /\ IF IsResourceType(Tok(tokens, i))
       THEN /\ resource_type' = Tok(tokens, i)
            /\ integration_data' = GetResourceMetadata(integration_mappings, Tok(tokens, i))
            /\ state' = "CONDITION_START"
            /\ i' = i + 1
            /\ UNCHANGED <<managerVars, callVars,
                           impl, integration_mappings, text, tokens, pc, command,
                           access_types, conditions, current_condition,
                           current_logical_op, error, statement, helper_at, cond_at>>
       ELSE Raise("ValueError", Tok(tokens, i))

\* state CONDITION_START
StepConditionStart ==
    /\ pc = "loop" /\ i < Len(tokens) /\ state = "CONDITION_START"
    /\ LET token == Tok(tokens, i) IN
       IF i = Len(tokens) - 1
       THEN \* break: the last token is not looked at any further
            /\ pc' = "returned"
            /\ examined' = examined \cup {i}
            /\ UNCHANGED <<managerVars, callVars,
                           impl, integration_mappings, text, tokens, state, i, command,
                           access_types, resource_type, conditions, integration_data,
                           current_condition, current_logical_op, error, statement,
                           helper_at, cond_at>>
       ELSE IF IsStructuralHelper(token)
       THEN /\ current_condition' = [NoCondition EXCEPT !.helper = token]
            /\ state' = "CONDITION_FIELD"
            /\ i' = i + 1
            /\ helper_at' = i
            /\ examined' = examined \cup {i}
            /\ UNCHANGED <<managerVars, callVars,
                           impl, integration_mappings, text, tokens, pc, command,
                           access_types, resource_type, conditions, integration_data,
                           current_logical_op, error, statement, cond_at>>
       ELSE IF token = "AND" \/ token = "OR"
       THEN /\ current_logical_op' = token
            /\ i' = i + 1
            /\ examined' = examined \cup {i}
            /\ UNCHANGED <<managerVars, callVars,
                           impl, integration_mappings, text, tokens, pc, state, command,
                           access_types, resource_type, conditions, integration_data,
                           current_condition, error, statement, helper_at, cond_at>>
       ELSE /\ examined' = examined \cup {i}
            /\ Raise("ValueError", token)

\* Interpreter._map_field_from_helper of the core implementation
MapFieldFromHelperCore(im, helper, field_token) ==
    LET mapped == MapField(im, helper, field_token)
    IN  IF mapped # "" /\ mapped # None THEN mapped ELSE Lower(field_token)

\* Interpreter._map_field_from_helper of the permissions implementation: it is
\* called without a resource type, so the schema provider is never consulted
MapFieldFromHelperPermissions(im, helper, field_token) == Lower(field_token)

\* CONDITION_FIELD of the core implementation, the token being "=" or an
\* operator: the field is the helper's default field
DefaultField(im, helper) ==
    LET mapped == MapField(im, helper, "")
    IN  IF mapped # "" /\ mapped # None THEN mapped ELSE Lower(helper)

\* the check that opens CONDITION_FIELD in the core implementation
IsOperatorToken(t) == t = "=" \/ t \in ConditionOperators

\* state CONDITION_FIELD
StepConditionField ==
    /\ pc = "loop" /\ i < Len(tokens) /\ state = "CONDITION_FIELD"
    /\ examined' = examined \cup {i}
    /\ LET token == Tok(tokens, i) IN
       IF impl = "core" /\ IsOperatorToken(token)
       THEN \* continue without advancing: the token is processed again as the operator
            /\ current_condition' =
                  [current_condition EXCEPT
                      !.field = DefaultField(integration_mappings, current_condition.helper)]
            /\ i' = i
       ELSE /\ current_condition' =
                  [current_condition EXCEPT !.field =
                      IF impl = "core"
                      THEN MapFieldFromHelperCore(integration_mappings,
                                                  current_condition.helper, token)
                      ELSE MapFieldFromHelperPermissions(integration_mappings,
                                                  current_condition.helper, token)]
            /\ i' = i + 1
    /\ state' = "CONDITION_OPERATOR"
    /\ UNCHANGED <<managerVars, callVars,
                   impl, integration_mappings, text, tokens, pc, command, access_types,
                   resource_type, conditions, integration_data, current_logical_op,
                   error, statement, helper_at, cond_at>>

\* ConditionOperator(token) for a single token
SingleOperator(token) ==
    IF IsConditionOperator(token)
    THEN [ok |-> TRUE, operator |-> token, skip |-> 0]
    ELSE [ok |-> FALSE, operator |-> None, skip |-> 0]

\* the two-token operators
CompoundOperators ==
    ("IS" :> ("NOT" :> "IS_NOT"))
    @@ ("GREATER" :> ("THAN" :> "GREATER_THAN"))
    @@ ("LESS" :> ("THAN" :> "LESS_THAN"))

\* CONDITION_OPERATOR: the operator the tokens from index j spell, and how many
\* further tokens it takes (three-token phrases first, then two-token ones, then
\* the single token)
ResolveOperatorPairsFirst(toks, j) ==
    LET token == Tok(toks, j) IN
    IF token \in DOMAIN CompoundOperators /\ j + 1 < Len(toks)
    THEN IF Tok(toks, j + 1) \in DOMAIN CompoundOperators[token]
         THEN [ok |-> TRUE,
               operator |-> CompoundOperators[token][Tok(toks, j + 1)],
               skip |-> 1]
         ELSE SingleOperator(token)
    ELSE SingleOperator(token)
ResolveOperator(toks, j) ==
    LET token == Tok(toks, j) IN
    IF /\ token \in {"GREATER", "LESS"}
       /\ j + 2 < Len(toks)
       /\ Tok(toks, j + 1) = "OR"
       /\ Tok(toks, j + 2) = "EQUAL"
    THEN [ok |-> TRUE,
          operator |-> IF token = "GREATER" THEN "GREATER_OR_EQUAL" ELSE "LESS_OR_EQUAL",
          skip |-> 2]
    ELSE IF token \in DOMAIN CompoundOperators /\ j + 1 < Len(toks)
    THEN IF Tok(toks, j + 1) \in DOMAIN CompoundOperators[token]
         THEN [ok |-> TRUE,
               operator |-> CompoundOperators[token][Tok(toks, j + 1)],
               skip |-> 1]
         ELSE SingleOperator(token)
    ELSE SingleOperator(token)

\* the token indices CONDITION_OPERATOR reads at index j
OperatorLookahead(toks, j) ==
    LET token == Tok(toks, j) IN
    {j}
    \cup {k \in {j + 1} : /\ j + 1 < Len(toks)
                          /\ \/ token \in {"GREATER", "LESS"} /\ j + 2 < Len(toks)
                             \/ token \in DOMAIN CompoundOperators}
    \cup {k \in {j + 2} : /\ token \in {"GREATER", "LESS"}
                          /\ j + 2 < Len(toks)
                          /\ Tok(toks, j + 1) = "OR"}

\* state CONDITION_OPERATOR
StepConditionOperator ==
    /\ pc = "loop" /\ i < Len(tokens) /\ state = "CONDITION_OPERATOR"
    /\ LET token == Tok(tokens, i)
           r == ResolveOperator(tokens, i)
       IN
       IF impl = "core" /\ token = "="
       THEN /\ current_condition' = [current_condition EXCEPT !.operator = "IS"]
            /\ state' = "CONDITION_VALUE"
            /\ i' = i + 1
            /\ examined' = examined \cup {i}
            /\ UNCHANGED <<managerVars, callVars,
                           impl, integration_mappings, text, tokens, pc, command,
                           access_types, resource_type, conditions, integration_data,
                           current_logical_op, error, statement, helper_at, cond_at>>
       ELSE IF r.ok
       THEN /\ current_condition' = [current_condition EXCEPT !.operator = r.operator]
            /\ state' = "CONDITION_VALUE"
            /\ i' = i + r.skip + 1
            /\ examined' = examined \cup OperatorLookahead(tokens, i)
            /\ UNCHANGED <<managerVars, callVars,
                           impl, integration_mappings, text, tokens, pc, command,
                           access_types, resource_type, conditions, integration_data,
                           current_logical_op, error, statement, helper_at, cond_at>>
       ELSE /\ examined' = examined \cup OperatorLookahead(tokens, i)
            /\ Raise("ValueError", token)

\* CONDITION_VALUE: the field type the schema provider gives, None when no
\* integration declares one
SchemaFieldType(im, cc, rt) == GetFieldType(im, cc.field, rt)

\* CONDITION_VALUE of the core implementation: STRING when the schema gives no type
ResolveFieldTypeCore(ft) == IF ft = None THEN "STRING" ELSE ft

\* the condition CONDITION_VALUE appends
NewConditionWithoutType(cc, value, ft, lop) ==
    [field |-> cc.field, operator |-> cc.operator, value |-> value,
     field_type |-> None, logical_operator |-> lop]
NewCondition(cc, value, ft, lop) ==
    [field |-> cc.field, operator |-> cc.operator, value |-> value,
     field_type |-> ft, logical_operator |-> lop]

\* CONDITION_VALUE, the lookahead after the value at index j: an AND/OR that
\* follows becomes the pending logical operator
NextLogicalOpKeeping(cur, toks, j) == cur
NextLogicalOpResetting(cur, toks, j) ==
    IF j + 1 < Len(toks) /\ (Tok(toks, j + 1) = "AND" \/ Tok(toks, j + 1) = "OR")
    THEN Tok(toks, j + 1)
    ELSE DefaultLogicalOperator
NextLogicalOp(cur, toks, j) ==
    IF j + 1 < Len(toks) /\ (Tok(toks, j + 1) = "AND" \/ Tok(toks, j + 1) = "OR")
    THEN Tok(toks, j + 1)
    ELSE cur

\* CONDITION_VALUE: how far the index moves (the AND/OR looked at is skipped)
ValueAdvanceStalling(toks, j) == IF j + 1 < Len(toks) THEN 0 ELSE 1
ValueAdvance(toks, j) ==
    IF j + 1 < Len(toks) /\ (Tok(toks, j + 1) = "AND" \/ Tok(toks, j + 1) = "OR")
    THEN 2
    ELSE 1

\* CONDITION_VALUE: the state that follows a value with tokens after it
StateAfterValueIsHeader == "RESOURCE_TYPE"
StateAfterValue == "CONDITION_START"

\* state CONDITION_VALUE
StepConditionValue ==
    /\ pc = "loop" /\ i < Len(tokens) /\ state = "CONDITION_VALUE"
    /\ LET token == Tok(tokens, i)
           sft == SchemaFieldType(integration_mappings, current_condition, resource_type)
       IN
       IF impl = "permissions" /\ sft = None
       THEN \* _infer_data_type(field, token) is called with one argument too many
            /\ examined' = examined \cup {i}
            /\ Raise("TypeError", token)
       ELSE LET ft == IF impl = "core" THEN ResolveFieldTypeCore(sft) ELSE sft
                value == IF impl = "core" THEN Coerce(token, ft)
                         ELSE ConvertValue(token, ft)
            IN
            /\ conditions' = Append(conditions,
                                    NewCondition(current_condition, value, ft,
                                                 current_logical_op))
            /\ cond_at' = Append(cond_at, [helper |-> helper_at, value |-> i])
            /\ current_condition' = NoCondition
            /\ examined' = examined \cup {i} \cup {j \in {i + 1} : j < Len(tokens)}
            /\ IF i + 1 < Len(tokens)
               THEN /\ current_logical_op' = NextLogicalOp(current_logical_op, tokens, i)
                    /\ state' = StateAfterValue
                    /\ i' = i + ValueAdvance(tokens, i)
                    /\ pc' = pc
               ELSE \* break: end of statement
                    /\ pc' = "returned"
                    /\ UNCHANGED <<state, i, current_logical_op>>
            /\ UNCHANGED <<managerVars, callVars,
                           impl, integration_mappings, text, tokens, command, access_types,
                           resource_type, integration_data, error, statement,
                           helper_at>>

\* the while loop ends because the index ran past the last token: interpret
\* returns the result, whatever the state
LoopExit ==
    /\ pc = "loop" /\ i >= Len(tokens)
    /\ pc' = "returned"
    /\ UNCHANGED <<managerVars, callVars,
                   impl, integration_mappings, text, tokens, state, i, command, access_types,
                   resource_type, conditions, integration_data, current_condition,
                   current_logical_op, error, statement, examined, helper_at, cond_at>>

-----------------------------------------------------------------------------
(* SimpleStatementBuilder.build *)

\* Condition.logical_operator when the constructor is not given one
ConditionDefaultLogicalOperator == "AND"

\* the Condition built from one interpreted condition: field, operator, value
\* and field_type are passed on, logical_operator is not
BuildConditionUntyped(c) ==
    [field |-> c.field, operator |-> c.operator, value |-> c.value,
     field_type |-> None,
     logical_operator |-> ConditionDefaultLogicalOperator]
BuildCondition(c) ==
    [field |-> c.field, operator |-> c.operator, value |-> c.value,
     field_type |-> c.field_type,
     logical_operator |-> ConditionDefaultLogicalOperator]

\* the validation that opens build: the first missing part, None when complete
BuildMissingIgnoringAccess(cmd, ats, rt) ==
    IF cmd = None THEN "command"
    ELSE IF rt = None THEN "resource_type"
    ELSE None
BuildMissing(cmd, ats, rt) ==
    IF cmd = None THEN "command"
    ELSE IF ats = <<>> THEN "access_types"
    ELSE IF rt = None THEN "resource_type"
    ELSE None

\* the dict interpret returns: the keys of the result structure
InterpretedDataWithOperator ==
    [command |-> command, access_types |-> access_types,
     resource_type |-> resource_type, conditions |-> conditions,
     integration_data |-> integration_data,
     logical_operator |-> current_logical_op]
InterpretedData ==
    [command |-> command, access_types |-> access_types,
     resource_type |-> resource_type, conditions |-> conditions,
     integration_data |-> integration_data]

\* interpreted_data.get(key, default)
GetOr(d, key, default) == IF key \in DOMAIN d THEN d[key] ELSE default

\* build, called by the parser with the result interpret returned
BuildUnvalidated ==
    /\ pc = "returned"
    /\ pc' = "built"
    /\ statement' =
          [command |-> command,
           access_type |-> access_types,
           resource_type |-> resource_type,
           conditions |-> [k \in 1..Len(conditions) |-> BuildCondition(conditions[k])],
           logical_operator |-> GetOr(InterpretedData, "logical_operator", "AND")]
    /\ UNCHANGED <<managerVars, callVars,
                   impl, integration_mappings, text, tokens, state, i, command,
                   access_types, resource_type, conditions, integration_data,
                   current_condition, current_logical_op, error, examined, helper_at,
                   cond_at>>
Build ==
    /\ pc = "returned"
    /\ IF BuildMissing(command, access_types, resource_type) # None
       THEN /\ pc' = "invalid"
            /\ error' = [kind |-> "ValueError", state |-> "BUILD",
                         token |-> BuildMissing(command, access_types, resource_type)]
            /\ statement' = statement
       ELSE /\ pc' = "built"
            /\ statement' =
                  [command |-> command,
                   access_type |-> access_types,
                   resource_type |-> resource_type,
                   conditions |-> [k \in 1..Len(conditions) |-> BuildCondition(conditions[k])],
                   logical_operator |->
                       GetOr(InterpretedData, "logical_operator", "AND")]
            /\ error' = error
    /\ UNCHANGED <<managerVars, callVars,
                   impl, integration_mappings, text, tokens, state, i, command, access_types,
                   resource_type, conditions, integration_data, current_condition,
                   current_logical_op, examined, helper_at, cond_at>>

-----------------------------------------------------------------------------
(* The token lists the model runs interpret on. *)

\* the sequences over S of length at most n
SeqsUpTo(S, n) == UNION {[1..k -> S] : k \in 0..n}

\* statements of the specification and of the demo application, and the empty list
ExampleStreams ==
    {<<>>,
     <<"GIVE", "READ", "ACCESS_TO", "ISSUES", "WITH", "PRIORITY", "=", "1">>,
     <<"GIVE", "READ", "ACCESS_TO", "TEAMS">>,
     <<"DENY", "READ", "ACCESS_TO", "ISSUES", "WITH", "PRIORITY", "=", "3">>,
     <<"DENY", "READ", "&", "WRITE", "ACCESS_TO", "ISSUES">>,
     <<"GIVE", "READ", "ACCESS_TO", "ISSUES", "WITH", "PRIORITY", "GREATER", "OR",
       "EQUAL", "3">>,
     <<"GIVE", "READ", "ACCESS_TO", "ISSUES", "WITH", "A", "IS", "1", "AND", "B",
       "IS", "2">>,
     <<"FOO", "READ", "ACCESS_TO", "ISSUES">>,
     <<"DENY", "READ", "&", "WRITE", "ACCESS_TO", "ISSUES", "WITH", "PRIORITY",
       "GREATER", "THAN", "2", "AND", "STATUS", "IS", "active">>,
     <<"GIVE", "READ", "ACCESS_TO", "ISSUES", "WITH", "PRIORITY", "IS", "ACCESS_TO",
       "OR", "WITH", "PRIORITY", "IS", "AND">>}

\* statement heads: a first token, a run of access types and "&", and an ending
HeadFirst == {<<"GIVE">>, <<"DENY">>, <<"FOO">>, <<"READ">>, <<"ACCESS_TO">>}

AccessVocabulary == {"READ", "WRITE", "&"}

HeadRest ==
    {<<>>, <<"ACCESS_TO">>, <<"ACCESS_TO", "ISSUES">>, <<"ACCESS_TO", "FOO">>,
     <<"ISSUES">>, <<"FOO", "ACCESS_TO", "ISSUES">>}

HeadStreams ==
    {c \o body \o rest :
        c \in HeadFirst, body \in SeqsUpTo(AccessVocabulary, MaxAccess), rest \in HeadRest}

\* the head the condition families continue
ValidHead == <<"GIVE", "READ", "ACCESS_TO", "ISSUES">>

\* clauses: an optional run of AND/OR, then a condition, whole, cut short,
\* without its helper, or a token that is no helper
Joins == {<<>>, <<"AND">>, <<"OR">>, <<"AND", "OR">>}

ClauseBodies ==
    {<<>>, <<"WITH">>, <<"WITH", "PRIORITY">>, <<"WITH", "PRIORITY", "IS">>,
     <<"WITH", "PRIORITY", "IS", "1">>, <<"PRIORITY", "IS", "1">>, <<"FOO">>}

Clauses == {j \o b : j \in Joins, b \in ClauseBodies}

RECURSIVE ClauseSeqs(_)
ClauseSeqs(n) ==
    IF n = 0 THEN {<<>>}
    ELSE LET shorter == ClauseSeqs(n - 1)
         IN  shorter \cup {p \o c : p \in shorter, c \in Clauses}

ClauseStreams == {ValidHead \o t : t \in ClauseSeqs(MaxClauses)}

\* single conditions over every helper, field, operator spelling and value
FieldTokens ==
    {<<>>, <<"PRIORITY">>, <<"DONE">>, <<"LABELS">>, <<"OWNER">>, <<"TITLE">>,
     <<"COLOR">>}

OperatorPhrases ==
    {<<"=">>, <<"IS">>, <<"IS", "NOT">>, <<"CONTAINS">>, <<"GREATER", "THAN">>,
     <<"LESS", "THAN">>, <<"GREATER", "OR", "EQUAL">>, <<"LESS", "OR", "EQUAL">>,
     <<"GREATER">>, <<"IS_NOT">>, <<"LIKE">>}

ValueTokens ==
    {<<>>, <<"1">>, <<"abc">>, <<"TRUE">>, <<"a@b.c">>, <<"x,y">>, <<"2.5">>}

ConditionStreams ==
    {ValidHead \o <<h>> \o f \o op \o v :
        h \in StructuralHelpers, f \in FieldTokens, op \in OperatorPhrases,
        v \in ValueTokens}

Streams == ExampleStreams \cup HeadStreams \cup ClauseStreams \cup ConditionStreams

RECURSIVE WordsOf(_)
\* the words of the text that spells a token list: ACCESS_TO is written ACCESS TO
WordsOf(toks) ==
    IF toks = <<>> THEN <<>>
    ELSE (IF toks[1] = "ACCESS_TO" THEN <<"ACCESS", "TO">> ELSE <<toks[1]>>)
         \o WordsOf(Tail(toks))

\* texts in which ACCESS or TO stands alone, or ACCESS_TO is written as one word
LooseAccessTexts ==
    {<<"GIVE", "READ", "ACCESS", "ISSUES">>,
     <<"GIVE", "READ", "TO", "ISSUES">>,
     <<"GIVE", "READ", "ACCESS">>,
     <<"GIVE", "READ", "ACCESS", "ACCESS", "TO", "ISSUES">>,
     <<"GIVE", "READ", "ACCESS_TO", "ISSUES">>}

\* the statement texts the model runs parse_statement on; the empty text is
\* the text of the empty token list
Texts == {WordsOf(s) : s \in Streams} \cup LooseAccessTexts

-----------------------------------------------------------------------------
(* The parts of the state a specification leaves aside. *)

\* the standard module names, in the standard execution order
DEFAULT_EXECUTION_ORDER == <<"identity", "permissions", "credentials", "audit">>

\* PipelineConfig(): every standard module enabled
DefaultConfig == [m \in {"identity", "permissions", "credentials", "audit"} |-> TRUE]

\* no method call has ended
NoOutcome == [of |-> None, raised |-> None]

\* no manager method runs and none can start
NoManager ==
    /\ config = DefaultConfig
    /\ modules = {}
    /\ execution_order = <<>>
    /\ module_state = [m \in {} |-> None]
    /\ handler = "none"
    /\ order = <<>>
    /\ next_module = 1
    /\ context = EmptyMap
    /\ result = None
    /\ errors = <<>>
    /\ outcome = NoOutcome
    /\ calls = <<>>
    /\ audit = <<>>

\* one interpret call only
OneCall ==
    /\ thread = 0
    /\ other = None
    /\ reference = None

\* no statement is parsed
NoParser ==
    /\ impl = "core"
    /\ integration_mappings = <<>>
    /\ text = <<>>
    /\ tokens = <<>>
    /\ pc = "none"
    /\ state = "COMMAND"
    /\ i = 0
    /\ command = None
    /\ access_types = <<>>
    /\ resource_type = None
    /\ conditions = <<>>
    /\ integration_data = EmptyMap
    /\ current_condition = NoCondition
    /\ current_logical_op = DefaultLogicalOperator
    /\ error = NoError
    /\ statement = NoStatement
    /\ examined = {}
    /\ helper_at = 0
    /\ cond_at = <<>>

-----------------------------------------------------------------------------

Init ==
    /\ NoManager
    /\ OneCall
    /\ impl \in {"core", "permissions"}
    /\ integration_mappings \in Schemas
    /\ text \in Texts
    /\ tokens = <<>>
    /\ pc = "text"
    /\ state = "COMMAND"
    /\ i = 0
    /\ command = None
    /\ access_types = <<>>
    /\ resource_type = None
    /\ conditions = <<>>
    /\ integration_data = EmptyMap
    /\ current_condition = NoCondition
    /\ current_logical_op = DefaultLogicalOperator
    /\ error = NoError
    /\ statement = NoStatement
    /\ examined = {}
    /\ helper_at = 0
    /\ cond_at = <<>>

Next ==
    \/ Tokenize
    \/ Interpret
    \/ StepCommand
    \/ StepAccessType
    \/ StepAccessTo
    \/ StepResourceType
    \/ StepConditionStart
    \/ StepConditionField
    \/ StepConditionOperator
    \/ StepConditionValue
    \/ LoopExit
    \/ Build

Spec == Init /\ [][Next]_vars

\* parse_statement with the provider of the two integrations
FairInit == Init /\ integration_mappings = <<TrackerIntegration, LinearIntegration>>

\* the call is a sequential program that keeps running: a step that can be
\* taken is taken
FairSpec == FairInit /\ [][Next]_vars /\ WF_vars(Next)

-----------------------------------------------------------------------------
(* SimpleStatementBuilder.build on its own: called with any interpreted     *)
(* statement, not only with one interpret returned.                         *)

\* longest access_types list handed to build
MaxBuilderAccess == 2
\* largest number of interpreted conditions handed to build
MaxBuilderConditions == 2

\* interpreted conditions, of every field type and with either logical
\* operator; a condition without the field_type key has field_type None
InterpretedConditions ==
    {[field |-> "priority", operator |-> "GREATER_THAN", value |-> IntVal(2),
      field_type |-> "NUMBER", logical_operator |-> "AND"],
     [field |-> "labels", operator |-> "CONTAINS", value |-> ListVal(<<"x", "y">>),
      field_type |-> "TAGS", logical_operator |-> "OR"],
     [field |-> "done", operator |-> "IS", value |-> BoolVal(TRUE),
      field_type |-> "BOOLEAN", logical_operator |-> "AND"],
     [field |-> "title", operator |-> "IS_NOT", value |-> StrVal("abc"),
      field_type |-> None, logical_operator |-> "OR"]}

\* the interpreted statements build is called with: any part may be missing
\* (a missing or empty access_types list is the empty list)
BuilderInit ==
    /\ NoManager
    /\ OneCall
    /\ impl = "permissions"
    /\ integration_mappings = <<>>
    /\ text = <<>>
    /\ tokens = <<>>
    /\ pc = "returned"
    /\ state = "COMMAND"
    /\ i = 0
    /\ command \in Commands \cup {None}
    /\ access_types \in SeqsUpTo(AccessTypes, MaxBuilderAccess)
    /\ resource_type \in ResourceTypes \cup {None}
    /\ conditions \in SeqsUpTo(InterpretedConditions, MaxBuilderConditions)
    /\ integration_data = EmptyMap
    /\ current_condition = NoCondition
    /\ current_logical_op = DefaultLogicalOperator
    /\ error = NoError
    /\ statement = NoStatement
    /\ examined = {}
    /\ helper_at = 0
    /\ cond_at = <<>>

BuilderNext == Build

BuilderSpec == BuilderInit /\ [][BuilderNext]_vars

-----------------------------------------------------------------------------
(* Two interpret calls on one Interpreter.  The names interpret assigns are
   locals of the call (result, state, current_condition, current_logical_op,
   i, token); the interpreter and its schema provider are reached through self
   and are shared.  The variables of the parse hold the frame of the running
   call, the frame of the suspended call is kept in other; a switch between
   the calls can come between any two iterations. *)

\* the frame of the running call
Locals ==
    [tokens |-> tokens, pc |-> pc, state |-> state, i |-> i, command |-> command,
     access_types |-> access_types, resource_type |-> resource_type,
     conditions |-> conditions, integration_data |-> integration_data,
     current_condition |-> current_condition,
     current_logical_op |-> current_logical_op, error |-> error,
     examined |-> examined, helper_at |-> helper_at, cond_at |-> cond_at]

\* the frame of a call of interpret(toks) that has not run yet
EntryLocals(toks) ==
    [tokens |-> toks, pc |-> "start", state |-> "COMMAND", i |-> 0, command |-> None,
     access_types |-> <<>>, resource_type |-> None, conditions |-> <<>>,
     integration_data |-> EmptyMap, current_condition |-> NoCondition,
     current_logical_op |-> DefaultLogicalOperator, error |-> NoError,
     examined |-> {}, helper_at |-> 0, cond_at |-> <<>>]

\* the frame l becomes the frame of the running call
Resume(l) ==
    /\ tokens' = l.tokens /\ pc' = l.pc /\ state' = l.state /\ i' = l.i
    /\ command' = l.command /\ access_types' = l.access_types
    /\ resource_type' = l.resource_type /\ conditions' = l.conditions
    /\ integration_data' = l.integration_data
    /\ current_condition' = l.current_condition
    /\ current_logical_op' = l.current_logical_op /\ error' = l.error
    /\ examined' = l.examined /\ helper_at' = l.helper_at /\ cond_at' = l.cond_at

\* interpret has returned or raised
CallEnded(l) == l.pc \in {"returned", "raised"}

\* the token lists of the two calls
ConcurrentStreams ==
    {<<>>,
     <<"FOO", "READ", "ACCESS_TO", "ISSUES">>,
     <<"GIVE", "READ", "&", "WRITE", "ACCESS_TO", "TEAMS">>,
     ValidHead \o <<"NAMED", "=", "abc">>,
     ValidHead \o <<"WITH", "PRIORITY", "IS", "1", "OR", "NAMED", "TITLE", "IS", "abc">>,
     ValidHead \o <<"WITH", "PRIORITY", "GREATER", "OR", "EQUAL", "3", "WITH", "DONE",
                    "IS", "TRUE">>}

\* the first call was run alone: its outcome is kept and the call is made
\* again, this time next to the second call
StartConcurrent ==
    /\ thread = 0
    /\ CallEnded(Locals)
    /\ reference' = Locals
    /\ thread' = 1
    /\ Resume(EntryLocals(tokens))
    /\ UNCHANGED <<managerVars, other, impl, integration_mappings, text, statement>>

\* a switch between the calls: every name of the frame is saved and restored
SwitchSharingPendingOperator ==
    /\ thread \in {1, 2}
    /\ thread' = other.thread
    /\ other' = [thread |-> thread, locals |-> Locals]
    /\ Resume([other.locals EXCEPT !.current_logical_op = current_logical_op])
    /\ UNCHANGED <<managerVars, reference, impl, integration_mappings, text, statement>>
Switch ==
    /\ thread \in {1, 2}
    /\ thread' = other.thread
    /\ other' = [thread |-> thread, locals |-> Locals]
    /\ Resume(other.locals)
    /\ UNCHANGED <<managerVars, reference, impl, integration_mappings, text, statement>>

ConcurrentInit ==
    /\ NoManager
    /\ impl \in {"core", "permissions"}
    /\ integration_mappings \in Schemas
    /\ text = <<>>
    /\ statement = NoStatement
    /\ thread = 0
    /\ reference = None
    /\ \E second \in ConcurrentStreams :
          other = [thread |-> 2, locals |-> EntryLocals(second)]
    /\ \E first \in ConcurrentStreams :
          /\ tokens = first
          /\ pc = "start"
          /\ state = "COMMAND"
          /\ i = 0
          /\ command = None
          /\ access_types = <<>>
          /\ resource_type = None
          /\ conditions = <<>>
          /\ integration_data = EmptyMap
          /\ current_condition = NoCondition
          /\ current_logical_op = DefaultLogicalOperator
          /\ error = NoError
          /\ examined = {}
          /\ helper_at = 0
          /\ cond_at = <<>>

ConcurrentNext ==
    \/ Interpret
    \/ StepCommand
    \/ StepAccessType
    \/ StepAccessTo
    \/ StepResourceType
    \/ StepConditionStart
    \/ StepConditionField
    \/ StepConditionOperator
    \/ StepConditionValue
    \/ LoopExit
    \/ StartConcurrent
    \/ Switch

ConcurrentSpec == ConcurrentInit /\ [][ConcurrentNext]_vars

-----------------------------------------------------------------------------
(* AuthedManager.  The lifecycle manager, the modules and the audit logger
   are collaborators of the manager: whether start_module and stop_module
   raise, and whether a module's process returns a successful result, a
   failed result or raises, is up to them, and every outcome is taken.  The
   audit logger's calls are recorded and do not raise.  One method of the
   manager runs at a time. *)

CUSTOM_MODULE == "custom"

\* the module names that get registered: the standard ones and a custom one
ModuleNames == {"identity", "permissions", "credentials", "audit", CUSTOM_MODULE}

\* PipelineConfig
ManagerConfigs ==
    {DefaultConfig,
     [DefaultConfig EXCEPT !["permissions"] = FALSE],
     [DefaultConfig EXCEPT !["identity"] = FALSE, !["audit"] = FALSE]}

\* _is_module_enabled
IsModuleEnabled(cfg, m) == IF m \in DOMAIN cfg THEN cfg[m] ELSE TRUE

\* _get_execution_order: the cached order if it is not empty, otherwise the
\* standard order restricted to the registered, enabled modules
GetExecutionOrder(cached, registered, cfg) ==
    IF cached # <<>> THEN cached
    ELSE SelectSeq(DEFAULT_EXECUTION_ORDER,
                   LAMBDA m : m \in registered /\ IsModuleEnabled(cfg, m))

\* reversed(execution_order)
Reversed(s) == [n \in 1..Len(s) |-> s[Len(s) + 1 - n]]

\* how a method call ended
Ended(method, exception) == [of |-> method, raised |-> exception]

\* a call made to the lifecycle manager or to a module
Call(name, m, how) == [call |-> name, module |-> m, ended |-> how]

\* a call made to the audit logger
Event(type, m) == [event |-> type, module |-> m]

\* ModuleResult.success_result and ModuleResult.error_result as module m
\* returns them
SuccessResult(m) ==
    [success |-> TRUE,
     data |-> (m :> "granted") @@ ("last" :> m) @@ ("source" :> "data"),
     error |-> None,
     metadata |-> ("source" :> "metadata")]

ErrorResult(m) ==
    [success |-> FALSE, data |-> EmptyMap, error |-> "denied",
     metadata |-> ("module" :> m)]

\* ModuleContext.with_result, on context.data
WithResult(data, res) ==
    IF ~res.success
    THEN ("error" :> res.error) @@ ("error_metadata" :> res.metadata) @@ data
    ELSE res.metadata @@ res.data @@ data

\* is_module_running
IsModuleRunningOnceStarted(states, m) == states[m] # "UNINITIALIZED"
IsModuleRunning(states, m) == states[m] = "RUNNING"

\* _process_module: the exception a raising module.process is converted to
ConvertedError(m) ==
    CASE m = "identity" -> "IdentityError"
      [] m = "permissions" -> "PermissionValidation"
      [] m = "credentials" -> "CredentialError"
      [] m = "audit" -> "AuditError"
      [] OTHER -> "ModuleError"

\* a method is entered: what the previous call left behind is dropped
Enter(method, ord) ==
    /\ handler = "idle"
    /\ handler' = method
    /\ order' = ord
    /\ next_module' = 1
    /\ errors' = <<>>
    /\ outcome' = NoOutcome
    /\ calls' = <<>>
    /\ result' = None

\* register_module(module), module.metadata.name = name
RegisterModuleKeepingCache(name) ==
    /\ handler = "idle"
    /\ IF name \in modules
       THEN /\ outcome' = Ended("register_module", "ConfigurationError")
            /\ UNCHANGED <<modules, execution_order>>
       ELSE /\ modules' = modules \cup {name}
            /\ execution_order' = execution_order
            /\ outcome' = Ended("register_module", None)
    /\ order' = <<>> /\ next_module' = 1 /\ errors' = <<>> /\ calls' = <<>>
    /\ result' = None /\ audit' = <<>> /\ context' = EmptyMap
    /\ UNCHANGED <<config, module_state, handler>>
    /\ UNCHANGED <<parserVars, callVars>>
RegisterModule(name) ==
    /\ handler = "idle"
    /\ IF name \in modules
       THEN /\ outcome' = Ended("register_module", "ConfigurationError")
            /\ UNCHANGED <<modules, execution_order>>
       ELSE /\ modules' = modules \cup {name}
            /\ execution_order' = <<>>
            /\ outcome' = Ended("register_module", None)
    /\ order' = <<>> /\ next_module' = 1 /\ errors' = <<>> /\ calls' = <<>>
    /\ result' = None /\ audit' = <<>> /\ context' = EmptyMap
    /\ UNCHANGED <<config, module_state, handler>>
    /\ UNCHANGED <<parserVars, callVars>>

\* start: the execution order is computed
Start ==
    /\ Enter("start", GetExecutionOrder(execution_order, modules, config))
    /\ execution_order' = GetExecutionOrder(execution_order, modules, config)
    /\ audit' = <<>>
    /\ context' = EmptyMap
    /\ UNCHANGED <<config, modules, module_state>>
    /\ UNCHANGED <<parserVars, callVars>>

\* start: one iteration of the loop; an exception of start_module leaves start
StartModule ==
    /\ handler = "start"
    /\ next_module <= Len(order)
    /\ LET m == order[next_module] IN
       IF ~IsModuleEnabled(config, m)
       THEN /\ next_module' = next_module + 1
            /\ UNCHANGED <<module_state, calls, handler, outcome>>
       ELSE \/ /\ module_state' = [module_state EXCEPT ![m] = "RUNNING"]
               /\ calls' = Append(calls, Call("start_module", m, "returned"))
               /\ next_module' = next_module + 1
               /\ UNCHANGED <<handler, outcome>>
            \/ /\ module_state' = [module_state EXCEPT ![m] = "ERROR"]
               /\ calls' = Append(calls, Call("start_module", m, "raised"))
               /\ handler' = "idle"
               /\ outcome' = Ended("start", "LifecycleError")
               /\ UNCHANGED next_module
    /\ UNCHANGED <<config, modules, execution_order, order, context, result, errors,
                   audit>>
    /\ UNCHANGED <<parserVars, callVars>>

\* start: the loop is over
StartReturn ==
    /\ handler = "start"
    /\ next_module > Len(order)
    /\ handler' = "idle"
    /\ outcome' = Ended("start", None)
    /\ UNCHANGED <<config, modules, execution_order, module_state, order, next_module,
                   context, result, errors, calls, audit>>
    /\ UNCHANGED <<parserVars, callVars>>

\* stop: the execution order is computed and walked in reverse
Stop ==
    /\ Enter("stop", Reversed(GetExecutionOrder(execution_order, modules, config)))
    /\ execution_order' = GetExecutionOrder(execution_order, modules, config)
    /\ audit' = <<>>
    /\ context' = EmptyMap
    /\ UNCHANGED <<config, modules, module_state>>
    /\ UNCHANGED <<parserVars, callVars>>

\* stop: one iteration of the loop; an exception of stop_module is recorded
\* and logged
StopModuleAborting ==
    /\ handler = "stop"
    /\ next_module <= Len(order)
    /\ LET m == order[next_module] IN
       IF ~IsModuleEnabled(config, m)
       THEN /\ next_module' = next_module + 1
            /\ UNCHANGED <<module_state, calls, errors, audit>>
       ELSE \/ /\ module_state' = [module_state EXCEPT ![m] = "STOPPED"]
               /\ calls' = Append(calls, Call("stop_module", m, "returned"))
               /\ next_module' = next_module + 1
               /\ UNCHANGED <<errors, audit>>
            \/ /\ module_state' = [module_state EXCEPT ![m] = "ERROR"]
               /\ calls' = Append(calls, Call("stop_module", m, "raised"))
               /\ errors' = Append(errors, [module |-> m, error |-> "stop failed"])
               /\ audit' = Append(audit, Event("MODULE_ERROR", m))
               /\ next_module' = Len(order) + 1
    /\ UNCHANGED <<config, modules, execution_order, handler, order, context, result,
                   outcome>>
    /\ UNCHANGED <<parserVars, callVars>>
StopModule ==
    /\ handler = "stop"
    /\ next_module <= Len(order)
    /\ LET m == order[next_module] IN
       IF ~IsModuleEnabled(config, m)
       THEN UNCHANGED <<module_state, calls, errors, audit>>
       ELSE \/ /\ module_state' = [module_state EXCEPT ![m] = "STOPPED"]
               /\ calls' = Append(calls, Call("stop_module", m, "returned"))
               /\ UNCHANGED <<errors, audit>>
            \/ /\ module_state' = [module_state EXCEPT ![m] = "ERROR"]
               /\ calls' = Append(calls, Call("stop_module", m, "raised"))
               /\ errors' = Append(errors, [module |-> m, error |-> "stop failed"])
               /\ audit' = Append(audit, Event("MODULE_ERROR", m))
    /\ next_module' = next_module + 1
    /\ UNCHANGED <<config, modules, execution_order, handler, order, context, result,
                   outcome>>
    /\ UNCHANGED <<parserVars, callVars>>

\* stop: the loop is over; ShutdownError if any stop_module raised
StopReturn ==
    /\ handler = "stop"
    /\ next_module > Len(order)
    /\ handler' = "idle"
    /\ outcome' = Ended("stop", IF errors # <<>> THEN "ShutdownError" ELSE None)
    /\ UNCHANGED <<config, modules, execution_order, module_state, order, next_module,
                   context, result, errors, calls, audit>>
    /\ UNCHANGED <<parserVars, callVars>>

\* process_request, up to the loop: a fresh context, the execution order, the
\* audit context is started and REQUEST_STARTED is logged
ProcessRequest ==
    /\ Enter("process_request", GetExecutionOrder(execution_order, modules, config))
    /\ execution_order' = GetExecutionOrder(execution_order, modules, config)
    /\ context' = EmptyMap
    /\ audit' = <<Event("start", None), Event("REQUEST_STARTED", None)>>
    /\ UNCHANGED <<config, modules, module_state>>
    /\ UNCHANGED <<parserVars, callVars>>

\* process_request: the exception raised in the loop reaches the handlers of
\* the outer try; which of the two handlers takes it depends on whether the
\* exception is a PipelineError, and both end the audit context with
\* success=False and leave process_request with a PipelineError
PipelineFailsWithoutEnd(m, exception, sofar) ==
    /\ errors' = <<[module |-> m, error |-> exception]>>
    /\ \E logged \in {"PIPELINE_ERROR", "MODULE_ERROR"} :
          audit' = sofar \o <<Event("MODULE_ERROR", m), Event(logged, m)>>
    /\ handler' = "idle"
    /\ outcome' = Ended("process_request", "PipelineError")
    /\ UNCHANGED <<next_module, context, result>>
PipelineFails(m, exception, sofar) ==
    /\ errors' = <<[module |-> m, error |-> exception]>>
    /\ \E logged \in {"PIPELINE_ERROR", "MODULE_ERROR"} :
          audit' = sofar \o <<Event("MODULE_ERROR", m), Event(logged, m),
                              Event("end_failure", None)>>
    /\ handler' = "idle"
    /\ outcome' = Ended("process_request", "PipelineError")
    /\ UNCHANGED <<next_module, context, result>>

\* process_request: one iteration of the loop, with _process_module and
\* with_result
ProcessModule ==
    /\ handler = "process_request"
    /\ next_module <= Len(order)
    /\ LET m == order[next_module]
           started == Append(audit, Event("MODULE_PROCESSING_START", m))
       IN
       IF ~IsModuleEnabled(config, m)
       THEN /\ next_module' = next_module + 1
            /\ UNCHANGED <<context, result, errors, outcome, calls, audit, handler>>
       ELSE IF m \notin modules
       THEN /\ PipelineFails(m, "ModuleNotRegistered", started)
            /\ UNCHANGED calls
       ELSE IF ~IsModuleRunning(module_state, m)
       THEN /\ PipelineFails(m, "ModuleError", started)
            /\ UNCHANGED calls
       ELSE \/ \E res \in {SuccessResult(m), ErrorResult(m)} :
                  /\ calls' = Append(calls, Call("process", m,
                                                 IF res.success THEN "success"
                                                 ELSE "failure"))
                  /\ result' = res
                  /\ context' = WithResult(context, res)
                  /\ audit' = Append(started, Event("MODULE_PROCESSING_SUCCESS", m))
                  /\ next_module' = next_module + 1
                  /\ UNCHANGED <<errors, outcome, handler>>
            \/ /\ calls' = Append(calls, Call("process", m, "raised"))
               /\ PipelineFails(m, ConvertedError(m), started)
    /\ UNCHANGED <<config, modules, execution_order, module_state, order>>
    /\ UNCHANGED <<parserVars, callVars>>

\* _process_module(name, context), called on its own with the context at hand
CallProcessModule(name) ==
    /\ handler = "idle"
    /\ IF name \notin modules
       THEN /\ outcome' = Ended("_process_module", "ModuleNotRegistered")
            /\ errors' = <<[module |-> name, error |-> "ModuleNotRegistered"]>>
            /\ calls' = <<>>
            /\ result' = None
       ELSE IF ~IsModuleRunning(module_state, name)
       THEN /\ outcome' = Ended("_process_module", "ModuleError")
            /\ errors' = <<[module |-> name, error |-> "ModuleError"]>>
            /\ calls' = <<>>
            /\ result' = None
       ELSE \/ \E res \in {SuccessResult(name), ErrorResult(name)} :
                  /\ calls' = <<Call("process", name,
                                     IF res.success THEN "success" ELSE "failure")>>
                  /\ result' = res
                  /\ errors' = <<>>
                  /\ outcome' = Ended("_process_module", None)
            \/ /\ calls' = <<Call("process", name, "raised")>>
               /\ result' = None
               /\ errors' = <<[module |-> name, error |-> ConvertedError(name)]>>
               /\ outcome' = Ended("_process_module", ConvertedError(name))
    /\ order' = <<>> /\ next_module' = 1 /\ audit' = <<>>
    /\ UNCHANGED <<config, modules, execution_order, module_state, handler, context>>
    /\ UNCHANGED <<parserVars, callVars>>

\* process_request: the loop is over; REQUEST_COMPLETED is logged, the audit
\* context is ended with success=pipeline_success and the context is returned
ProcessReturn ==
    /\ handler = "process_request"
    /\ next_module > Len(order)
    /\ audit' = audit \o <<Event("REQUEST_COMPLETED", None), Event("end_success", None)>>
    /\ handler' = "idle"
    /\ outcome' = Ended("process_request", None)
    /\ UNCHANGED <<config, modules, execution_order, module_state, order, next_module,
                   context, result, errors, calls>>
    /\ UNCHANGED <<parserVars, callVars>>

ManagerInit ==
    /\ NoParser
    /\ OneCall
    /\ config \in ManagerConfigs
    /\ modules = {}
    /\ execution_order = <<>>
    /\ module_state = [m \in ModuleNames |-> "UNINITIALIZED"]
    /\ handler = "idle"
    /\ order = <<>>
    /\ next_module = 1
    /\ context = EmptyMap
    /\ result = None
    /\ errors = <<>>
    /\ outcome = NoOutcome
    /\ calls = <<>>
    /\ audit = <<>>

ManagerNext ==
    \/ \E name \in ModuleNames : RegisterModule(name)
    \/ Start
    \/ StartModule
    \/ StartReturn
    \/ Stop
    \/ StopModule
    \/ StopReturn
    \/ ProcessRequest
    \/ ProcessModule
    \/ ProcessReturn
    \/ \E name \in ModuleNames : CallProcessModule(name)

ManagerSpec == ManagerInit /\ [][ManagerNext]_vars

-----------------------------------------------------------------------------
(* Properties *)

\* interpret returned a result (and build may have run on it)
Returned == {"returned", "built", "invalid"}

\* the largest element of a non-empty set of integers
Max(S) == CHOOSE x \in S : \A y \in S : y <= x

\* the indices of the AND/OR tokens that lie between the value of condition
\* k-1 and the helper of condition k
JoinersBetween(k) ==
    {j \in (cond_at[k - 1].value + 1)..(cond_at[k].helper - 1) :
        Tok(tokens, j) \in LogicalOperators}

\* C1: in every statement accepted end to end, each condition k > 1 of the
\* PermissionStatement carries the AND/OR that joined it to the condition
\* before it (a condition joined by OR has logical_operator OR)
C1_BuiltConditionCarriesJoiner ==
    pc = "built" =>
        \A k \in 2..Len(statement.conditions) :
            Cardinality(JoinersBetween(k)) = 1 =>
                statement.conditions[k].logical_operator
                    = Tok(tokens, Max(JoinersBetween(k)))

\* the statement of the specification whose second condition has no helper
NoRepeatedHelperStatement ==
    <<"GIVE", "READ", "ACCESS_TO", "ISSUES", "WITH", "A", "IS", "1", "AND", "B",
      "IS", "2">>

\* C2: GIVE READ ACCESS_TO ISSUES WITH A IS 1 AND B IS 2 is accepted (no
\* grammar error) and yields exactly the two conditions on a and b, in that
\* order, the second tagged AND and the first the default
C2_SecondConditionWithoutHelperAccepted ==
    (tokens = NoRepeatedHelperStatement /\ error.kind # "TypeError") =>
        /\ pc # "raised"
        /\ pc \in Returned =>
              /\ Len(conditions) = 2
              /\ conditions[1].field = "a" /\ conditions[2].field = "b"
              /\ conditions[1].logical_operator = DefaultLogicalOperator
              /\ conditions[2].logical_operator = "AND"

\* C3 as stated: in the result interpret returns, condition k > 1 carries
\* every AND/OR token that lies between the value of condition k-1 and its own
\* helper
C3_EveryJoinerRecorded ==
    pc \in Returned =>
        \A k \in 2..Len(conditions) :
            \A j \in JoinersBetween(k) :
                conditions[k].logical_operator = Tok(tokens, j)

\* C3 as amended: in the result interpret returns, condition k > 1 carries the
\* last AND/OR token that lies between the value of condition k-1 and its own
\* helper, when there is one
C3_LastJoinerRecorded ==
    pc \in Returned =>
        \A k \in 2..Len(conditions) :
            JoinersBetween(k) # {} =>
                conditions[k].logical_operator = Tok(tokens, Max(JoinersBetween(k)))

\* C3, its case: a returned statement whose second condition was joined by OR
C3_Witness ==
    /\ pc = "returned"
    /\ Len(conditions) >= 2
    /\ JoinersBetween(2) # {}
    /\ Tok(tokens, Max(JoinersBetween(2))) = "OR"
    /\ conditions[2].logical_operator = "OR"

\* C4: interpret (and so parse) returns no result when the tokens end in the
\* middle of a condition, that is with the interpreter waiting for a field, an
\* operator or a value
C4_NoPartialSuccess ==
    pc \in {"returned", "built"} =>
        ~ /\ i >= Len(tokens)
          /\ state \in {"CONDITION_FIELD", "CONDITION_OPERATOR", "CONDITION_VALUE"}

\* C5: in CONDITION_START a token that is neither a structural helper nor
\* AND/OR makes interpret raise at once, naming the token, wherever the token
\* stands (the last token included)
C5_ConditionStartRejects ==
    [][(/\ pc = "loop" /\ state = "CONDITION_START" /\ i < Len(tokens)
        /\ ~IsStructuralHelper(Tok(tokens, i))
        /\ Tok(tokens, i) \notin LogicalOperators)
       => (pc' = "raised" /\ error'.token = Tok(tokens, i))]_vars

\* the field type CONDITION_VALUE works with once one is resolved: the
\* schema's, or in the core implementation STRING when the schema gives none;
\* None when none is resolved
ResolvedFieldType ==
    LET sft == GetFieldType(integration_mappings, current_condition.field, resource_type)
    IN  IF sft # None THEN sft
        ELSE IF impl = "core" THEN "STRING"
        ELSE None

\* the interpreter is about to process the token at i in CONDITION_VALUE
AtValue == pc = "loop" /\ state = "CONDITION_VALUE" /\ i < Len(tokens)

\* C6: when the schema provider gives no type for the condition's field, the
\* type is inferred from the value token (BOOLEAN, NUMBER, EMAIL_ADDRESS, else
\* STRING) and the value is coerced to it, without raising
C6_MissingTypeInferred ==
    [][(/\ AtValue
        /\ GetFieldType(integration_mappings, current_condition.field, resource_type)
              = None)
       => (/\ pc' # "raised"
           /\ Len(conditions') = Len(conditions) + 1
           /\ conditions'[Len(conditions')].field_type = InferDataType(Tok(tokens, i))
           /\ conditions'[Len(conditions')].value
                 = ConvertValue(Tok(tokens, i), InferDataType(Tok(tokens, i))))]_vars

\* C7: with a field type resolved, CONDITION_VALUE never raises: it appends a
\* condition of that type, and a value that cannot be converted (a NUMBER
\* field with a token that is no number) is kept as the original string
C7_CoercionNeverAborts ==
    [][(AtValue /\ ResolvedFieldType # None)
       => (/\ pc' # "raised"
           /\ Len(conditions') = Len(conditions) + 1
           /\ conditions'[Len(conditions')].field_type = ResolvedFieldType
           /\ (/\ ResolvedFieldType = "NUMBER"
               /\ Tok(tokens, i) \notin DOMAIN IntLiteral \cup DOMAIN FloatLiteral)
              => conditions'[Len(conditions')].value = StrVal(Tok(tokens, i)))]_vars

\* C7, its case: a condition on a NUMBER field whose value abc stayed a string
C7_Witness ==
    /\ pc \in Returned
    /\ \E k \in 1..Len(conditions) :
          /\ conditions[k].field_type = "NUMBER"
          /\ conditions[k].value = StrVal("abc")
          /\ Tok(tokens, cond_at[k].value) = "abc"

\* <Command> A1 & A2 & ... & An ACCESS_TO <ResourceType>, n >= 1, nothing after
IsAccessListStatement(toks) ==
    /\ Len(toks) >= 4
    /\ Len(toks) % 2 = 0
    /\ toks[1] \in Commands
    /\ \A k \in 1..((Len(toks) - 2) \div 2) : toks[2 * k] \in AccessTypes
    /\ \A k \in 1..((Len(toks) - 2) \div 2 - 1) : toks[2 * k + 1] = "&"
    /\ toks[Len(toks) - 1] = "ACCESS_TO"
    /\ toks[Len(toks)] \in ResourceTypes

\* A1..An of such a statement
AccessListOf(toks) == [k \in 1..((Len(toks) - 2) \div 2) |-> toks[2 * k]]

\* C8: <Command> A1 & ... & An ACCESS_TO <ResourceType> is accepted, with
\* access_types = [A1..An] in order, the resource type set and no conditions
C8_AccessListStatementAccepted ==
    IsAccessListStatement(tokens) =>
        /\ pc \notin {"raised", "invalid"}
        /\ pc \in Returned =>
              /\ command = tokens[1]
              /\ access_types = AccessListOf(tokens)
              /\ resource_type = tokens[Len(tokens)]
              /\ conditions = <<>>
        /\ pc = "built" =>
              /\ statement.access_type = AccessListOf(tokens)
              /\ statement.conditions = <<>>

\* C8, its case: a statement with two access types joined by "&" was built
C8_Witness ==
    /\ IsAccessListStatement(tokens)
    /\ Len(tokens) = 6
    /\ pc = "built"
    /\ Len(statement.access_type) = 2

\* the index of the last token of the run of access types and "&" that
\* follows the command
RECURSIVE AccessRunEnd(_, _)
AccessRunEnd(toks, k) ==
    IF k + 1 <= Len(toks) /\ toks[k + 1] \in AccessTypes \cup {"&"}
    THEN AccessRunEnd(toks, k + 1)
    ELSE k

\* the run is not A (& A)*: "&" leads, trails or is doubled, or two access
\* types stand side by side
MalformedAccessList(toks) ==
    LET e == AccessRunEnd(toks, 1) IN
    /\ e >= 2
    /\ \/ toks[2] = "&"
       \/ toks[e] = "&"
       \/ \E k \in 2..(e - 1) :
             \/ toks[k] = "&" /\ toks[k + 1] = "&"
             \/ toks[k] \in AccessTypes /\ toks[k + 1] \in AccessTypes

\* C9: a statement whose access types are not joined by single "&" tokens
\* (two access types side by side, a leading, trailing or doubled "&") is
\* rejected: no PermissionStatement comes out of it
C9_AccessListGrammarEnforced ==
    (tokens # <<>> /\ tokens[1] \in Commands /\ MalformedAccessList(tokens))
        => pc # "built"

\* C10: when the first token is no command, interpret fails at state COMMAND
\* with an error naming that token, having read no other token and produced
\* no result
C10_NonCommandFirstTokenFails ==
    (tokens # <<>> /\ tokens[1] \notin Commands) =>
        \/ pc = "start" /\ examined = {}
        \/ pc = "loop" /\ i = 0 /\ state = "COMMAND" /\ examined = {}
        \/ /\ pc = "raised"
           /\ error = [kind |-> "ValueError", state |-> "COMMAND", token |-> tokens[1]]
           /\ examined = {0}
           /\ command = None /\ access_types = <<>> /\ resource_type = None
           /\ conditions = <<>>
           /\ statement = NoStatement

\* C10, its case: FOO READ ACCESS_TO ISSUES was refused at FOO
C10_Witness ==
    /\ tokens = <<"FOO", "READ", "ACCESS_TO", "ISSUES">>
    /\ pc = "raised"
    /\ error.token = "FOO"

\* the interpreter is about to process the token at i in CONDITION_OPERATOR
AtOperator == pc = "loop" /\ state = "CONDITION_OPERATOR" /\ i < Len(tokens)

\* the tokens at i, i+1, i+2 are GREATER (or LESS), OR, EQUAL
OrEqualPhraseAt ==
    /\ i + 2 < Len(tokens)
    /\ Tok(tokens, i) \in {"GREATER", "LESS"}
    /\ Tok(tokens, i + 1) = "OR"
    /\ Tok(tokens, i + 2) = "EQUAL"

\* the step accepted operator op and consumed n tokens: the token at i + n is
\* the next one processed, in CONDITION_VALUE
OperatorAccepted(op, n) ==
    /\ pc' = "loop"
    /\ state' = "CONDITION_VALUE"
    /\ i' = i + n
    /\ current_condition' = [current_condition EXCEPT !.operator = op]
    /\ conditions' = conditions

\* C11: in CONDITION_OPERATOR, GREATER (LESS) followed by OR EQUAL resolves to
\* GREATER_OR_EQUAL (LESS_OR_EQUAL) and consumes the three tokens, whatever
\* two-token or single-token reading the first token has; the token after
\* EQUAL is the one CONDITION_VALUE then takes as the value
C11_OrEqualPhraseResolved ==
    [][/\ (AtOperator /\ OrEqualPhraseAt)
          => OperatorAccepted(IF Tok(tokens, i) = "GREATER" THEN "GREATER_OR_EQUAL"
                              ELSE "LESS_OR_EQUAL", 3)
       /\ (AtValue /\ Len(conditions') = Len(conditions) + 1)
          => /\ cond_at'[Len(cond_at')].value = i
             /\ conditions'[Len(conditions')].operator = current_condition.operator
      ]_vars

\* C11, its case: PRIORITY GREATER OR EQUAL 3 gave a condition with operator
\* GREATER_OR_EQUAL whose value is the token after EQUAL
C11_Witness ==
    /\ pc \in Returned
    /\ Len(conditions) = 1
    /\ conditions[1].operator = "GREATER_OR_EQUAL"
    /\ cond_at[1].value >= 3
    /\ Tok(tokens, cond_at[1].value - 3) = "GREATER"
    /\ Tok(tokens, cond_at[1].value - 2) = "OR"
    /\ Tok(tokens, cond_at[1].value - 1) = "EQUAL"
    /\ Tok(tokens, cond_at[1].value) = "3"
    /\ conditions[1].value = IntVal(3)

\* C12: in CONDITION_OPERATOR (the OR EQUAL phrases aside), "=" resolves to IS
\* consuming one token; IS NOT, GREATER THAN and LESS THAN resolve to IS_NOT,
\* GREATER_THAN and LESS_THAN consuming two; any other token is accepted as
\* itself, consuming one token, when it is a ConditionOperator, and otherwise
\* interpret raises naming the token
C12_OperatorResolution ==
    [][(AtOperator /\ ~OrEqualPhraseAt) =>
          LET token == Tok(tokens, i)
              second == IF i + 1 < Len(tokens) THEN Tok(tokens, i + 1) ELSE None
          IN  IF token = "=" THEN OperatorAccepted("IS", 1)
              ELSE IF token = "IS" /\ second = "NOT" THEN OperatorAccepted("IS_NOT", 2)
              ELSE IF token = "GREATER" /\ second = "THAN"
                   THEN OperatorAccepted("GREATER_THAN", 2)
              ELSE IF token = "LESS" /\ second = "THAN"
                   THEN OperatorAccepted("LESS_THAN", 2)
              ELSE IF token \in ConditionOperators THEN OperatorAccepted(token, 1)
              ELSE pc' = "raised" /\ error'.token = token
      ]_vars

\* the interpreter is about to process the token at i in CONDITION_FIELD
AtField == pc = "loop" /\ state = "CONDITION_FIELD" /\ i < Len(tokens)

\* the field a helper stands for when no field name follows it: the field name
\* the first integration maps the helper to, else the helper lower-cased (WITH
\* is never mapped)
HelperDefaultField(im, helper) ==
    LET mappers == {k \in 1..Len(im) : helper \in DOMAIN im[k].helper_mappings}
    IN  IF helper # "WITH" /\ mappers # {}
        THEN im[CHOOSE k \in mappers : \A m \in mappers : k <= m].helper_mappings[helper]
        ELSE Lower(helper)

\* C13: in CONDITION_FIELD, when the token after the helper is "=" or an
\* operator token, the field becomes the helper's default field and the token
\* is not consumed: it is processed next, as the operator, in
\* CONDITION_OPERATOR
C13_DefaultFieldShortcut ==
    [][(AtField /\ (Tok(tokens, i) = "=" \/ Tok(tokens, i) \in ConditionOperators))
       => /\ pc' = "loop"
          /\ state' = "CONDITION_OPERATOR"
          /\ i' = i
          /\ current_condition'.field
                = HelperDefaultField(integration_mappings, current_condition.helper)
      ]_vars

\* C14: build fails with a validation error and returns no PermissionStatement
\* whenever the interpreted statement has no command, no access type (the
\* list empty or missing) or no resource type
C14_BuildRejectsIncomplete ==
    (/\ pc \in {"built", "invalid"}
     /\ (command = None \/ access_types = <<>> \/ resource_type = None))
    => /\ pc = "invalid"
       /\ error.kind = "ValueError" /\ error.state = "BUILD"
       /\ statement = NoStatement

\* C14, its case: build refused a statement that lacks only its access types
C14_Witness ==
    /\ pc = "invalid"
    /\ command # None /\ access_types = <<>> /\ resource_type # None
    /\ error.token = "access_types"
    /\ statement = NoStatement

\* C15: every PermissionStatement the pipeline returns has a command, at least
\* one access type and a resource type; a token list that ends before the
\* resource type makes interpret return without raising, and build then
\* refuses the result, so no PermissionStatement comes out of it
C15_BuiltStatementIsComplete ==
    /\ pc = "built" =>
          /\ statement.command \in Commands
          /\ Len(statement.access_type) >= 1
          /\ statement.resource_type \in ResourceTypes
    /\ (/\ pc \in Returned
        /\ (command = None \/ access_types = <<>> \/ resource_type = None))
       => pc # "built" /\ statement = NoStatement

\* C15, its case: GIVE ACCESS_TO ISSUES went through interpret without an
\* error and was refused by build
C15_Witness ==
    /\ tokens = <<"GIVE", "ACCESS_TO", "ISSUES">>
    /\ pc = "invalid"
    /\ error.state = "BUILD"
    /\ resource_type = "ISSUES" /\ access_types = <<>>
    /\ statement = NoStatement

\* C16: build copies the conditions: the output has as many conditions as the
\* interpreted statement, in the same order, and condition k has the field,
\* operator, value and field_type of interpreted condition k
C16_ConditionsCopiedVerbatim ==
    pc = "built" =>
        /\ Len(statement.conditions) = Len(conditions)
        /\ \A k \in 1..Len(conditions) :
              /\ statement.conditions[k].field = conditions[k].field
              /\ statement.conditions[k].operator = conditions[k].operator
              /\ statement.conditions[k].value = conditions[k].value
              /\ statement.conditions[k].field_type = conditions[k].field_type

\* C16, its case: a statement with two different conditions was built
C16_Witness ==
    /\ pc = "built"
    /\ Len(conditions) = 2
    /\ conditions[1].field = "labels" /\ conditions[2].field = "priority"
    /\ statement.conditions[1].value = ListVal(<<"x", "y">>)
    /\ statement.conditions[2].field_type = "NUMBER"

\* the field of a condition introduced by helper H with field token T: T
\* lower-cased for WITH, else the field name the first integration in
\* registration order maps H to, else T lower-cased
ResolvedField(im, H, T) ==
    LET mappers == {k \in 1..Len(im) : H \in DOMAIN im[k].helper_mappings}
    IN  IF H = "WITH" THEN Lower(T)
        ELSE IF mappers # {}
        THEN im[CHOOSE k \in mappers : \A m \in mappers : k <= m].helper_mappings[H]
        ELSE Lower(T)

\* C17: CONDITION_FIELD gives every condition that has a field token T after
\* its helper H the field ResolvedField(H, T)
C17_FieldResolution ==
    [][(AtField /\ Tok(tokens, i) # "=" /\ Tok(tokens, i) \notin ConditionOperators)
       => current_condition'.field
             = ResolvedField(integration_mappings, current_condition.helper,
                             Tok(tokens, i))
      ]_vars

\* the integration mappings get_field_type and get_resource_metadata are
\* compared on: those of the model and the two integrations in the other order
ComparedSchemas == Schemas \cup {<<LinearIntegration, TrackerIntegration>>}

\* the field names looked up
ComparedFields ==
    {"priority", "done", "labels", "owner", "title", "color", "a", "b", "status",
     "summary"}

\* the integrations that declare a valid DataType for the field under the
\* resource type
ValidDeclarers(im, field, rt) ==
    {k \in 1..Len(im) :
        /\ rt \in DOMAIN im[k].resources
        /\ field \in DOMAIN im[k].resources[rt].fields
        /\ im[k].resources[rt].fields[field] \in DataTypes}

\* the type the first of them declares, None when there is none
FirstValidType(im, field, rt) ==
    LET V == ValidDeclarers(im, field, rt)
    IN  IF V = {} THEN None
        ELSE im[CHOOSE k \in V : \A m \in V : k <= m].resources[rt].fields[field]

\* C18: get_field_type returns the first valid DataType declared for the field
\* under the resource type, in registration order, skipping integrations whose
\* data_type is missing or malformed, and None iff no integration declares a
\* valid one; the interpreter that takes the schema's type as it is records
\* that type in its conditions.  (The comparison over all schemas, fields and
\* resource types does not depend on the parse; it is made in the behaviours
\* of the empty text.)
C18_FirstValidTypeWins ==
    /\ text = <<>> =>
          \A im \in ComparedSchemas, f \in ComparedFields, rt \in ResourceTypes :
              /\ GetFieldType(im, f, rt) = FirstValidType(im, f, rt)
              /\ GetFieldType(im, f, rt) = None <=> ValidDeclarers(im, f, rt) = {}
    /\ (impl = "permissions" /\ pc \in Returned) =>
          \A k \in 1..Len(conditions) :
              conditions[k].field_type
                  = FirstValidType(integration_mappings, conditions[k].field,
                                   resource_type)

\* C18, its case: priority is declared INTEGER (no DataType) by the first
\* integration and NUMBER by the second, and the condition got NUMBER
C18_Witness ==
    /\ impl = "permissions"
    /\ pc \in Returned
    /\ Len(integration_mappings) = 2
    /\ integration_mappings[1].resources["ISSUES"].fields["priority"] \notin DataTypes
    /\ Len(conditions) >= 1
    /\ conditions[1].field = "priority"
    /\ conditions[1].field_type = "NUMBER"

\* the union of the metadata the integrations declare for the resource type,
\* the value of a key being that of the last integration that declares it
MergedMetadata(im, rt) ==
    LET declares(key) ==
            {k \in 1..Len(im) : /\ rt \in DOMAIN im[k].resources
                                /\ key \in DOMAIN im[k].resources[rt].metadata}
        keys == UNION {DOMAIN im[k].resources[rt].metadata :
                          k \in {m \in 1..Len(im) : rt \in DOMAIN im[m].resources}}
    IN  [key \in keys |->
            im[CHOOSE k \in declares(key) : \A m \in declares(key) : m <= k]
                .resources[rt].metadata[key]]

\* C19: once RESOURCE_TYPE has accepted resource type R, integration_data is
\* the merged metadata of R (last integration wins on a shared key), and it
\* stays so through every later step.  (The comparison of
\* get_resource_metadata over all schemas and resource types does not depend
\* on the parse; it is made in the behaviours of the empty text.)
C19_IntegrationDataIsMergedMetadata ==
    [][/\ resource_type' # None
          => integration_data' = MergedMetadata(integration_mappings, resource_type')
       /\ resource_type # None => integration_data' = integration_data
       /\ text = <<>> =>
             \A im \in ComparedSchemas, rt \in ResourceTypes :
                 GetResourceMetadata(im, rt) = MergedMetadata(im, rt)
      ]_vars

\* C19, its case: two integrations declare metadata for ISSUES, the shared key
\* api has the value of the second, the key only the first declares is kept,
\* and the condition states ran afterwards
C19_Witness ==
    /\ pc \in Returned
    /\ Len(integration_mappings) = 2
    /\ resource_type = "ISSUES"
    /\ Len(conditions) >= 1
    /\ DOMAIN integration_data = {"api", "collection", "page_size"}
    /\ integration_data["api"] = integration_mappings[2].resources["ISSUES"].metadata["api"]
    /\ integration_data["api"] # integration_mappings[1].resources["ISSUES"].metadata["api"]

\* C20: parse_statement runs tokenizer, interpreter and builder in that order
\* and stops at the first failure: interpret starts only on the tokens of a
\* successful tokenize, build starts only on the result interpret returned,
\* nothing runs after a failure, and a failed call yields no PermissionStatement
C20_StagesInOrder ==
    [][/\ pc \notin {"raised", "invalid", "built"}
       /\ (pc = "text" /\ text = <<>>) => (pc' = "raised" /\ tokens' = <<>>)
       /\ (pc' = "start") => (pc = "text" /\ text # <<>>)
       /\ (pc' = "loop" /\ pc # "loop") => (pc = "start" /\ examined = {})
       /\ (pc' \in {"built", "invalid"}) => pc = "returned"
       /\ (pc' = "returned") => pc = "loop"
       /\ (pc' \in {"raised", "invalid"}) => statement' = NoStatement
       /\ (pc' = "built") => statement' # NoStatement
      ]_vars

\* C20, its case: the tokenizer failed on the empty text, and neither the
\* interpreter nor the builder ran
C20_Witness ==
    /\ text = <<>>
    /\ pc = "raised"
    /\ error.kind = "TokenizeError"
    /\ tokens = <<>> /\ examined = {}
    /\ statement = NoStatement

\* C22: in every accepted statement with at least one condition, the first
\* condition of the interpreted statement carries the default AND, whatever
\* tokens stand before the first structural helper
C22_FirstConditionDefaultOperator ==
    (pc \in {"returned", "built"} /\ Len(conditions) >= 1)
        => conditions[1].logical_operator = DefaultLogicalOperator

\* the iterations the loop can still make: two for every token from i on, one
\* less once the token at i has been through CONDITION_FIELD
IterationsLeft(st, j) ==
    2 * (Len(tokens) - j) + (IF st = "CONDITION_FIELD" THEN 1 ELSE 0)

\* C26: interpret is one left-to-right pass that terminates: the loop, once
\* entered, is left; in every iteration the index does not decrease, and the
\* iteration advances the index, raises, leaves the loop, or moves from
\* CONDITION_FIELD to CONDITION_OPERATOR on the same token; the number of
\* iterations left decreases with every iteration, so a token is processed
\* in at most two states
C26_SingleLeftToRightPass ==
    /\ (pc = "loop") ~> (pc \in {"raised", "returned", "built", "invalid"})
    /\ [][pc = "loop" =>
             /\ i' >= i
             /\ \/ i' > i
                \/ pc' \in {"raised", "returned"}
                \/ state = "CONDITION_FIELD" /\ state' = "CONDITION_OPERATOR" /\ i' = i
             /\ pc' = "loop" =>
                   /\ i < Len(tokens)
                   /\ IterationsLeft(state', i') < IterationsLeft(state, i)
                   /\ IterationsLeft(state', i') >= 0
         ]_vars

\* C26, its case: a token went through CONDITION_FIELD and CONDITION_OPERATOR
\* (the default-field shortcut) and interpret returned
C26_Witness ==
    /\ impl = "core"
    /\ pc = "returned"
    /\ Len(conditions) = 1
    /\ cond_at[1].value = cond_at[1].helper + 2
    /\ Tok(tokens, cond_at[1].helper + 1) = "="
    /\ examined = 0..(Len(tokens) - 1)

\* the states in which a condition is read
ConditionStates ==
    {"CONDITION_START", "CONDITION_FIELD", "CONDITION_OPERATOR", "CONDITION_VALUE"}

\* the transitions of the required order
ForwardTransitions ==
    {<<"COMMAND", "ACCESS_TYPE">>, <<"ACCESS_TYPE", "ACCESS_TO">>,
     <<"ACCESS_TYPE", "RESOURCE_TYPE">>, <<"ACCESS_TO", "RESOURCE_TYPE">>,
     <<"RESOURCE_TYPE", "CONDITION_START">>, <<"CONDITION_START", "CONDITION_FIELD">>,
     <<"CONDITION_FIELD", "CONDITION_OPERATOR">>,
     <<"CONDITION_OPERATOR", "CONDITION_VALUE">>,
     <<"CONDITION_VALUE", "CONDITION_START">>}

\* C27: the state changes only along COMMAND -> ACCESS_TYPE -> (ACCESS_TO) ->
\* RESOURCE_TYPE -> CONDITION_START -> CONDITION_FIELD -> CONDITION_OPERATOR ->
\* CONDITION_VALUE -> CONDITION_START; command is set whenever the state is not
\* COMMAND, resource_type is set whenever the state is a condition state, and
\* so both are set whenever a condition has been appended
C27_StateMovesForward ==
    [][/\ state' # state => <<state, state'>> \in ForwardTransitions
       /\ state' # "COMMAND" => command' \in Commands
       /\ state' \in ConditionStates => resource_type' \in ResourceTypes
       /\ conditions' # <<>> =>
             (command' \in Commands /\ resource_type' \in ResourceTypes)
      ]_vars

\* C27, its case: a second condition was read, after CONDITION_VALUE led back
\* to CONDITION_START
C27_Witness ==
    /\ pc = "loop"
    /\ state = "CONDITION_OPERATOR"
    /\ Len(conditions) = 1
    /\ command = "GIVE" /\ resource_type = "ISSUES"

\* C28: the conditions list only grows, by one complete condition per
\* CONDITION_VALUE step: the new element has field, operator, value,
\* field_type and logical_operator set, it is the condition being read with
\* the token at i as its value, and it is appended after the conditions of
\* the earlier value tokens
C28_ConditionsAppendOnlyAndComplete ==
    [][\/ conditions' = conditions
       \/ /\ AtValue
          /\ Len(conditions') = Len(conditions) + 1
          /\ SubSeq(conditions', 1, Len(conditions)) = conditions
          /\ LET c == conditions'[Len(conditions')] IN
                /\ c.field # None /\ c.field = current_condition.field
                /\ c.operator \in ConditionOperators
                /\ c.operator = current_condition.operator
                /\ c.value \in {Coerce(Tok(tokens, i), c.field_type),
                                ConvertValue(Tok(tokens, i), c.field_type)}
                /\ c.field_type \in DataTypes
                /\ c.logical_operator \in LogicalOperators
          /\ Len(cond_at') = Len(conditions')
          /\ cond_at'[Len(cond_at')].value = i
          /\ \A n \in 1..Len(cond_at) : cond_at[n].value < i
      ]_vars

\* C28, its case: two complete conditions were appended, in the order of their
\* value tokens
C28_Witness ==
    /\ pc = "returned"
    /\ Len(conditions) = 2
    /\ cond_at[1].value < cond_at[2].value
    /\ \A n \in 1..2 : conditions[n].field_type \in DataTypes

\* the multi-token operator phrases that begin with GREATER or LESS
ComparisonPhrases ==
    (<<"GREATER", "THAN">> :> "GREATER_THAN")
    @@ (<<"LESS", "THAN">> :> "LESS_THAN")
    @@ (<<"GREATER", "OR", "EQUAL">> :> "GREATER_OR_EQUAL")
    @@ (<<"LESS", "OR", "EQUAL">> :> "LESS_OR_EQUAL")

\* C29: for a helper H with a mapped default field, H GREATER THAN v,
\* H LESS THAN v, H GREATER OR EQUAL v and H LESS OR EQUAL v are accepted and
\* yield one condition on H's default field with the compound operator and the
\* value v
C29_ShortcutCoversComparisonPhrases ==
    \A phrase \in DOMAIN ComparisonPhrases :
        (/\ tokens = ValidHead \o <<"NAMED">> \o phrase \o <<"1">>
         /\ HelperDefaultField(integration_mappings, "NAMED") # "named"
         /\ pc \in {"raised", "returned", "built", "invalid"})
        => /\ pc # "raised"
           /\ Len(conditions) = 1
           /\ conditions[1].field = HelperDefaultField(integration_mappings, "NAMED")
           /\ conditions[1].operator = ComparisonPhrases[phrase]
           /\ cond_at[1].value = Len(tokens) - 1

\* the integrations that map helper h, in registration order
MappersOf(im, h) == {k \in 1..Len(im) : h \in DOMAIN im[k].helper_mappings}

\* C30: the helper table has an entry for exactly the StructuralHelpers some
\* integration maps (other keys are skipped, construction does not fail), and
\* the entry lists every mapping integration once, with the field name it
\* maps the helper to, in registration order.  (The comparison over all
\* schemas does not depend on the parse; it is made in the behaviours of the
\* empty text.)  map_field takes a mapped helper's field from this table
C30_HelperTableComplete ==
    /\ text = <<>> =>
          \A im \in ComparedSchemas :
              LET table == LoadHelperMappings(im) IN
              /\ DOMAIN table = {h \in StructuralHelpers : MappersOf(im, h) # {}}
              /\ \A h \in DOMAIN table :
                    /\ Len(table[h]) = Cardinality(MappersOf(im, h))
                    /\ \A k \in MappersOf(im, h) :
                          LET pos == Cardinality({m \in MappersOf(im, h) : m <= k})
                          IN  table[h][pos] = [integration |-> im[k].name,
                                               field |-> im[k].helper_mappings[h]]
    /\ (impl = "core" /\ pc \in Returned) =>
          \A n \in 1..Len(conditions) :
              LET h == Tok(tokens, cond_at[n].helper)
                  table == LoadHelperMappings(integration_mappings)
              IN  (h # "WITH" /\ h \in DOMAIN table)
                      => conditions[n].field = table[h][1].field

\* C30, its case: an integration maps the unrecognized helper TAGGED, which
\* got no entry, and the field of a NAMED condition came from the first of the
\* two integrations that map NAMED
C30_Witness ==
    /\ impl = "core"
    /\ pc \in Returned
    /\ Len(integration_mappings) = 2
    /\ "TAGGED" \in DOMAIN integration_mappings[2].helper_mappings
    /\ "TAGGED" \notin DOMAIN LoadHelperMappings(integration_mappings)
    /\ Len(LoadHelperMappings(integration_mappings)["NAMED"]) = 2
    /\ Len(conditions) = 1
    /\ Tok(tokens, cond_at[1].helper) = "NAMED"
    /\ conditions[1].field = integration_mappings[1].helper_mappings["NAMED"]

\* the frame of call n, running or suspended
FrameOf(n) == IF thread = n THEN Locals ELSE other.locals

\* C21: two interpret calls on one interpreter do not interfere: no step of
\* interpret writes the interpreter or its provider (the integration mappings,
\* from which the helper table is derived), a step of the running call leaves
\* the frame of the suspended call as it is, and under every interleaving the
\* first call ends with the result, or the error, it has when run alone
C21_ConcurrentCallsDoNotInterfere ==
    [][/\ integration_mappings' = integration_mappings
       /\ LoadHelperMappings(integration_mappings')
              = LoadHelperMappings(integration_mappings)
       /\ impl' = impl
       /\ thread' = thread => other' = other
       /\ (thread' \in {1, 2} /\ CallEnded(FrameOf(1)')) => FrameOf(1)' = reference
      ]_vars

\* C21, its case: the first call ended with two conditions while the second
\* call, switched to and from in between, is in the middle of a condition of
\* its own
C21_Witness ==
    /\ thread = 1
    /\ pc = "returned"
    /\ Len(conditions) = 2
    /\ conditions[2].logical_operator = "OR"
    /\ other.locals.pc = "loop"
    /\ other.locals.state = "CONDITION_VALUE"
    /\ Len(other.locals.conditions) = 1
    /\ other.locals.tokens # tokens

\* process_request has ended, by returning or by raising
ProcessRequestEnded == handler = "idle" /\ outcome.of = "process_request"

\* C23: process_request raises PipelineError if a stage fails, that is if a
\* module of the execution order raised or returned a ModuleResult with
\* success=False; and the failing stage is the last one processed
C23_FailedStageRaisesPipelineError ==
    ProcessRequestEnded =>
        /\ (\/ errors # <<>>
            \/ \E n \in 1..Len(calls) : calls[n].ended \in {"failure", "raised"})
               => outcome.raised = "PipelineError"
        /\ \A n \in 1..Len(calls) : calls[n].ended # "success" => n = Len(calls)

\* the overlay of old on which data and then metadata are laid
Overlay(old, data, metadata) ==
    [key \in DOMAIN old \cup DOMAIN data \cup DOMAIN metadata |->
        IF key \in DOMAIN metadata THEN metadata[key]
        ELSE IF key \in DOMAIN data THEN data[key]
        ELSE old[key]]

\* C24: with_result, applied to the result a module returned, raises when the
\* result has success=False (the iteration ends with the exception and no new
\* context), and otherwise gives the context whose data is the old data
\* overlaid with the result's data and metadata
C24_WithResultRaisesOnFailure ==
    [][(/\ handler = "process_request"
        /\ calls' # calls
        /\ calls'[Len(calls')].ended # "raised")
       => IF result'.success
          THEN context' = Overlay(context, result'.data, result'.metadata)
          ELSE /\ outcome'.raised = "PipelineError"
               /\ context' = context
      ]_vars

\* start_module was called for module m, that many times
StartModuleCalls(m) ==
    Cardinality({n \in 1..Len(calls) :
                    calls[n].call = "start_module" /\ calls[n].module = m})

\* C25: after start() completed without error, start_module has been called
\* once for every registered module that _is_module_enabled, custom modules
\* included
C25_StartStartsEveryEnabledModule ==
    (handler = "idle" /\ outcome.of = "start" /\ outcome.raised = None)
        => \A m \in modules : IsModuleEnabled(config, m) => StartModuleCalls(m) = 1

\* the indices of the AND/OR tokens consumed before the value of condition n:
\* the AND/OR tokens before its helper that are not the field, operator or
\* value of an earlier condition
ConsumedJoiners(n) ==
    {j \in 0..(cond_at[n].helper - 1) :
        /\ Tok(tokens, j) \in LogicalOperators
        /\ \A k \in 1..(n - 1) : ~(cond_at[k].helper < j /\ j <= cond_at[k].value)}

\* the step consumes an AND/OR token: CONDITION_START reads one, or the
\* lookahead of CONDITION_VALUE finds one
ConsumesJoiner ==
    /\ pc = "loop" /\ pc' = "loop"
    /\ \/ /\ state = "CONDITION_START"
          /\ Tok(tokens, i) \in LogicalOperators
       \/ /\ state = "CONDITION_VALUE"
          /\ i + 1 < Len(tokens)
          /\ Tok(tokens, i + 1) \in LogicalOperators

\* C31: the pending logical operator is never reset between conditions: it
\* changes only when an AND/OR token is consumed, every condition is tagged
\* with the most recent AND/OR token consumed before its value, and with AND
\* if there is none
C31_PendingOperatorNeverReset ==
    /\ [](pc \in {"loop", "returned", "built", "invalid"} =>
            \A n \in 1..Len(conditions) :
                conditions[n].logical_operator
                    = IF ConsumedJoiners(n) = {} THEN DefaultLogicalOperator
                      ELSE Tok(tokens, Max(ConsumedJoiners(n))))
    /\ [][(pc = "loop" /\ ~ConsumesJoiner)
              => current_logical_op' = current_logical_op]_vars

\* C31, its case: the second condition follows the first with no AND/OR in
\* between and inherits the OR consumed before the first
C31_Witness ==
    /\ pc = "returned"
    /\ Len(conditions) = 2
    /\ cond_at[2].helper = cond_at[1].value + 1
    /\ ConsumedJoiners(2) # {}
    /\ Tok(tokens, Max(ConsumedJoiners(2))) = "OR"
    /\ conditions[2].logical_operator = "OR"

\* C32: the state ACCESS_TO is entered only from ACCESS_TYPE, by the lookahead
\* that saw ACCESS_TO as the next token; the token processed in state
\* ACCESS_TO is the literal ACCESS_TO, and the error of that state is never
\* raised
C32_AccessToErrorUnreachable ==
    /\ [](/\ (pc = "loop" /\ state = "ACCESS_TO")
               => (i < Len(tokens) /\ Tok(tokens, i) = "ACCESS_TO")
          /\ error.state # "ACCESS_TO")
    /\ [][(state' = "ACCESS_TO" /\ state # "ACCESS_TO")
             => /\ state = "ACCESS_TYPE"
                /\ IsAccessType(Tok(tokens, i))
                /\ Tok(tokens, i + 1) = "ACCESS_TO"
                /\ i' = i + 1]_vars

\* C32, its case: the interpreter is in state ACCESS_TO, after a list of two
\* access types
C32_Witness ==
    /\ pc = "loop"
    /\ state = "ACCESS_TO"
    /\ Len(access_types) = 2
    /\ Tok(tokens, i) = "ACCESS_TO"

\* C33: every PermissionStatement built from what interpret returned has the
\* top-level logical_operator AND, whatever joined its conditions: the
\* interpreted data has no logical_operator key, so build takes the default
C33_TopLevelOperatorIsAnd ==
    pc = "built" => statement.logical_operator = "AND"

\* C33, its case: a statement was built whose conditions are all tagged OR
C33_Witness ==
    /\ pc = "built"
    /\ Len(statement.conditions) = 2
    /\ \A n \in 1..2 : conditions[n].logical_operator = "OR"
    /\ current_logical_op = "OR"
    /\ statement.logical_operator = "AND"

\* the token after the value at i is an AND/OR
JoinerFollows == i + 1 < Len(tokens) /\ Tok(tokens, i + 1) \in LogicalOperators

\* C34: in CONDITION_VALUE the token at i, whatever it is, is accepted and
\* consumed as the value of one new condition, only that token is consumed as
\* a value, and the pending logical operator changes only by an AND/OR that
\* follows the value, not by the value itself
C34_ValueIsNeverChecked ==
    [][AtValue =>
          /\ pc' # "raised"
          /\ Len(conditions') = Len(conditions) + 1
          /\ cond_at'[Len(cond_at')].value = i
          /\ conditions'[Len(conditions')].logical_operator = current_logical_op
          /\ pc' = "loop" =>
                /\ state' = "CONDITION_START"
                /\ i' = IF JoinerFollows THEN i + 2 ELSE i + 1
          /\ current_logical_op' =
                IF JoinerFollows THEN Tok(tokens, i + 1) ELSE current_logical_op
      ]_vars

\* the place of a standard module in the standard order
StandardRank(m) == CHOOSE n \in 1..Len(DEFAULT_EXECUTION_ORDER) :
                       DEFAULT_EXECUTION_ORDER[n] = m

\* the registered, enabled modules with a standard name
StandardEnabled ==
    {m \in modules : m \in DOMAIN config /\ IsModuleEnabled(config, m)}

\* the last method entered, running or ended
Method == IF handler = "idle" THEN outcome.of ELSE handler

\* C35: start calls start_module, and process_request calls process, on
\* registered enabled modules in the standard order; stop calls stop_module in
\* the reverse of that order; a method that ran to its end has gone through
\* all of them; and process_request processes a module only after every
\* earlier module was processed successfully
C35_ModulesInStandardOrder ==
    /\ \A n \in 1..Len(calls) : calls[n].module \in StandardEnabled
    /\ \A a, b \in 1..Len(calls) :
          a < b =>
              IF Method = "stop"
              THEN StandardRank(calls[a].module) > StandardRank(calls[b].module)
              ELSE StandardRank(calls[a].module) < StandardRank(calls[b].module)
    /\ (handler = "idle" /\ outcome.of \in {"start", "stop"}
            /\ outcome.raised # "LifecycleError")
          => {calls[n].module : n \in 1..Len(calls)} = StandardEnabled
    /\ Method = "process_request" =>
          \A n \in 2..Len(calls) : calls[n - 1].ended = "success"

\* the calls of the running method that raised, in the order they were made
RaisedCalls == SelectSeq(calls, LAMBDA c : c.ended = "raised")

AuditPlaces(events) == {n \in 1..Len(audit) : audit[n].event \in events}

Members(s) == {s[n] : n \in 1..Len(s)}

\* C38: a register_module call either raises ConfigurationError and leaves
\* the registry and the cached execution order as they were, or adds a name
\* that was not registered and empties the cached order; the order a method
\* computes next has every registered, enabled module with a standard name,
\* the new one included
C38_RegistrationInvalidatesOrder ==
    [][/\ (handler = "idle" /\ handler' = "idle" /\ outcome'.of = "register_module") =>
             \/ /\ outcome' = Ended("register_module", "ConfigurationError")
                /\ modules # {}
                /\ modules' = modules
                /\ execution_order' = execution_order
             \/ /\ outcome' = Ended("register_module", None)
                /\ \E name \in ModuleNames \ modules :
                      /\ modules' = modules \cup {name}
                      /\ (name \in DOMAIN config /\ IsModuleEnabled(config, name))
                            => name \in Members(GetExecutionOrder(execution_order',
                                                                  modules', config))
                /\ execution_order' = <<>>
       /\ (handler = "idle" /\ handler' # "idle") =>
             /\ Members(order') = StandardEnabled
             /\ execution_order' \in {order', Reversed(order')}
      ]_vars

\* C38, its case: a second module was registered after the first had been
\* started, that is after an execution order had been computed and cached
C38_Witness ==
    /\ handler = "idle"
    /\ outcome = Ended("register_module", None)
    /\ execution_order = <<>>
    /\ Cardinality(modules) = 2
    /\ \E m \in modules : module_state[m] = "RUNNING"

\* C39: module.process is called only on a module that is registered and
\* RUNNING; _process_module raises ModuleNotRegistered for a name that is not
\* registered and ModuleError for a registered module that is not running,
\* and then process is not called and the context stays as it was
C39_ProcessOnlyWhileRunning ==
    [][/\ (calls' # calls /\ calls' # <<>>
              /\ calls'[Len(calls')].call = "process") =>
             /\ calls'[Len(calls')].module \in modules
             /\ module_state[calls'[Len(calls')].module] = "RUNNING"
       /\ (handler' = "idle" /\ outcome'.of \in {"_process_module", "process_request"}
              /\ errors' # <<>>) =>
             LET name == errors'[1].module IN
             /\ name \notin modules =>
                   /\ errors'[1].error = "ModuleNotRegistered"
                   /\ context' = context
                   /\ calls' \in {calls, <<>>}
             /\ (name \in modules /\ module_state[name] # "RUNNING") =>
                   /\ errors'[1].error = "ModuleError"
                   /\ context' = context
                   /\ calls' \in {calls, <<>>}
      ]_vars

\* C39, its case: _process_module was called for a module that is registered
\* but was stopped, with a context a request had filled before
C39_Witness ==
    /\ handler = "idle"
    /\ outcome = Ended("_process_module", "ModuleError")
    /\ calls = <<>>
    /\ errors[1].module \in modules
    /\ module_state[errors[1].module] = "STOPPED"
    /\ context # EmptyMap

=============================================================================
